---- MODULE Spec2Model ----
(***************************************************************************)
(* SnipSolve: the document store of src/main/main.ts (documentChunks,      *)
(* documentsMetadata and their JSON files), the keyword retriever          *)
(* searchDocuments of main.ts, the plain retriever searchDocuments of      *)
(* utils/search.ts, and the upload-document / delete-document handlers.    *)
(*                                                                         *)
(* A JavaScript string is a sequence of one-character strings, so that     *)
(* toLowerCase, trim, split, the regular expression and join act on        *)
(* characters as the code does.                                            *)
(***************************************************************************)
EXTENDS Integers, Sequences, FiniteSets, TLC

(***************************************************************************)
(* Bounds of the model.                                                    *)
(***************************************************************************)
MaxDocs == 2
MaxChunks == 3
MaxStoreChunks == 4
MaxTopK == 2

Min(a, b) == IF a < b THEN a ELSE b
Max(a, b) == IF a > b THEN a ELSE b

(***************************************************************************)
(* Characters.  The alphabet has lower-case letters, one upper-case        *)
(* letter, two white-space characters, a character that is neither a word  *)
(* character nor special in a regular expression ("-") and two characters  *)
(* that are special in a regular expression ("." and "(").                 *)
(***************************************************************************)
WordChars == {"a", "b", "c", "d", "x", "A"}
SpaceChars == {" ", "\n"}

\* String.prototype.toLowerCase, one character (the ASCII letters)
LowerChar(c) ==
  CASE c = "A" -> "a"
    [] c = "B" -> "b" [] c = "C" -> "c" [] c = "D" -> "d" [] c = "E" -> "e"
    [] c = "F" -> "f" [] c = "G" -> "g" [] c = "H" -> "h" [] c = "I" -> "i"
    [] c = "J" -> "j" [] c = "K" -> "k" [] c = "L" -> "l" [] c = "M" -> "m"
    [] c = "N" -> "n" [] c = "O" -> "o" [] c = "P" -> "p" [] c = "Q" -> "q"
    [] c = "R" -> "r" [] c = "S" -> "s" [] c = "T" -> "t" [] c = "U" -> "u"
    [] c = "V" -> "v" [] c = "W" -> "w" [] c = "X" -> "x" [] c = "Y" -> "y"
    [] c = "Z" -> "z"
    [] OTHER -> c

\* String.prototype.toLowerCase
toLowerCase(s) == [i \in 1..Len(s) |-> LowerChar(s[i])]

\* \s of a regular expression and the white space String.prototype.trim removes
IsSpace(c) == c \in SpaceChars

\* \w of a regular expression (the text is lower-cased before matching)
IsWordChar(c) == c \in WordChars

\* query.trim().length === 0
IsBlank(s) == \A i \in 1..Len(s) : IsSpace(s[i])

RECURSIVE SplitFrom(_, _, _)
\* String.prototype.split(/\s+/), scanning from position i with the piece cur open
SplitFrom(s, i, cur) ==
  IF i > Len(s) THEN <<cur>>
  ELSE IF IsSpace(s[i])
       THEN IF i > 1 /\ IsSpace(s[i-1])
            THEN SplitFrom(s, i + 1, cur)
            ELSE <<cur>> \o SplitFrom(s, i + 1, <<>>)
       ELSE SplitFrom(s, i + 1, Append(cur, s[i]))

\* query.split(/\s+/): leading or trailing white space yields empty pieces
split(s) == SplitFrom(s, 1, <<>>)

\* a variant of FilterLong that keeps the tokens of length 2
FilterLong_Two(ws) == SelectSeq(ws, LAMBDA w : Len(w) > 1)

\* Array.prototype.filter(w => w.length > 2)
FilterLong(ws) == SelectSeq(ws, LAMBDA w : Len(w) > 2)

\* const queryWords = query.toLowerCase().split(/\s+/).filter(w => w.length > 2)
QueryWords(query) == FilterLong(split(toLowerCase(query)))

(***************************************************************************)
(* new RegExp(`\\b${word}\\w*`, 'gi'): the token is pasted into the        *)
(* pattern unescaped.  Over the alphabet, "(" opens a group that nothing   *)
(* closes, so the constructor throws a SyntaxError; "." matches any        *)
(* character but a line terminator; every other character is a literal.   *)
(***************************************************************************)
RegExpThrows(word) == \E i \in 1..Len(word) : word[i] = "("

\* one pattern character against one character of the text, flag i
PatternCharMatches(p, c) ==
  IF p = "." THEN c # "\n" ELSE LowerChar(p) = LowerChar(c)

\* \b before position i of text: exactly one side is a word character
WordBoundary(text, i) ==
  LET before == i > 1 /\ i - 1 <= Len(text) /\ IsWordChar(text[i-1])
      after == i >= 1 /\ i <= Len(text) /\ IsWordChar(text[i])
  IN before # after

\* the pattern \b<word>\w* matches at position i
MatchesAt(text, word, i) ==
  /\ WordBoundary(text, i)
  /\ i + Len(word) - 1 <= Len(text)
  /\ \A k \in 1..Len(word) : PatternCharMatches(word[k], text[i + k - 1])

RECURSIVE SkipWordChars(_, _)
\* greedy \w*: the first position from i on that holds no word character
SkipWordChars(text, i) ==
  IF i <= Len(text) /\ IsWordChar(text[i]) THEN SkipWordChars(text, i + 1) ELSE i

RECURSIVE CountMatchesFrom(_, _, _)
\* flag g: the matches are found left to right, each search resuming where
\* the previous match ended
CountMatchesFrom(text, word, i) ==
  IF i > Len(text) THEN 0
  ELSE IF MatchesAt(text, word, i)
       THEN 1 + CountMatchesFrom(text, word, SkipWordChars(text, i + Len(word)))
       ELSE CountMatchesFrom(text, word, i + 1)

\* chunkText.match(regex): null (0) or the array of all matches (its length)
MatchCount(chunkText, word) == CountMatchesFrom(chunkText, word, 1)

RECURSIVE SumMatches(_, _, _)
SumMatches(chunkText, queryWords, k) ==
  IF k > Len(queryWords) THEN 0
  ELSE MatchCount(chunkText, queryWords[k]) + SumMatches(chunkText, queryWords, k + 1)

\* the score loop of one chunk: let score = 0; for (const word of queryWords) ...
ChunkScore(text, queryWords) == SumMatches(toLowerCase(text), queryWords, 1)

\* some RegExp constructor call of the scoring pass throws
ScoringThrows(queryWords) == \E k \in 1..Len(queryWords) : RegExpThrows(queryWords[k])


(***************************************************************************)
(* State.                                                                  *)
(*   documentChunks     the Map docId -> chunk array of main.ts, as the    *)
(*                      sequence of its entries in insertion order (the    *)
(*                      order in which a Map iterates)                     *)
(*   documentsMetadata  the Map docId -> metadata, likewise                *)
(*   chunksFile, metadataFile  the contents of document-chunks.json and    *)
(*                      documents-metadata.json                            *)
(*   storedFiles        the ids whose copy exists in the documents folder  *)
(*   nextDoc            the number of document ids drawn so far            *)
(*   upload, delete     the position and locals of the upload-document     *)
(*                      and delete-document handler in flight              *)
(*   deleted            the ids for which delete-document has resolved     *)
(*   done               the outcome the last finished handler gave its     *)
(*                      caller                                             *)
(*   input              the arguments of the search under test             *)
(*   lastSearch         the last call of searchDocuments: its arguments,   *)
(*                      its locals when it ended (matched: the documents   *)
(*                      of matchingChunks; selected: selectedChunks;       *)
(*                      expanded: expandedResults), its outcome, and the   *)
(*                      documents deleted before the call                  *)
(*   lastPrompt         the last result of buildSystemPrompt               *)
(*   lastValidation     the last result of validateAIResponse              *)
(*   aiService          the AIService of main.ts: "undefined", "created"   *)
(*                      or "initialized" (isInitialized() is true)         *)
(*   aiInitializing, aiInitialized, aiInitError  the globals of main.ts    *)
(*   phase3             the position of initializePhase3                   *)
(*   capture, chat      the position and locals of the capture-screenshot  *)
(*                      and chat-followup handler in flight                *)
(*   oracleCalls        the number of createChatCompletion calls made      *)
(*   result             what the last capture-screenshot or chat-followup  *)
(*                      returned, with the completion it was built from    *)
(*   renderer           the chat state of MainWindow: isSending,           *)
(*                      chatInput, the chat history, the requests in       *)
(*                      flight, and what is rendered                       *)
(*   modelFile          the file at ModelManager.modelPath: "absent",      *)
(*                      "partial" (under 95% of the expected size) or      *)
(*                      "complete"                                         *)
(*   procs              the position of each caller of ModelManager:       *)
(*                      initializePhase3 and the get-model-status and      *)
(*                      download-model handlers                            *)
(*   pendingUnlinks     the fs.unlink calls of downloadModel that nobody   *)
(*                      awaits and that have not run yet                   *)
(*   aiStatus           the statuses sent to the renderer as 'ai-status'   *)
(*   startup            the position of the app.whenReady callback         *)
(*   currentSettings    currentSettings.captureShortcut                    *)
(*   settingsFile       the contents of settings.json                      *)
(*   registered         the shortcuts registered with globalShortcut       *)
(*   available          the shortcuts the system lets the app register     *)
(*   dataDir            whether the directory ~/.snipsolve exists          *)
(*   phase2             the position of initializePhase2                   *)
(***************************************************************************)
VARIABLES documentChunks, documentsMetadata, chunksFile, metadataFile,
          storedFiles, nextDoc, upload, delete, deleted, done, input, lastSearch,
          lastPrompt, lastValidation,
          aiService, aiInitializing, aiInitialized, aiInitError, phase3,
          capture, chat, oracleCalls, result,
          renderer, modelFile, procs, pendingUnlinks, aiStatus,
          startup, currentSettings, settingsFile, registered, available,
          dataDir, phase2

storeVars == <<documentChunks, documentsMetadata, chunksFile, metadataFile,
               storedFiles, nextDoc, upload, delete, deleted, done>>

solveVars == <<aiService, aiInitializing, aiInitialized, aiInitError, phase3,
               capture, chat, oracleCalls, result>>

assistantVars == <<lastPrompt, lastValidation, solveVars>>

modelVars == <<modelFile, procs, pendingUnlinks, aiStatus>>

startupVars == <<startup, currentSettings, settingsFile, registered, available,
                 dataDir, phase2>>

shellVars == <<renderer, modelVars, startupVars>>

vars == <<storeVars, input, lastSearch, assistantVars, shellVars>>

\* randomUUID(): the n-th identifier drawn; identifiers have one fixed length
DocId(n) == "u-" \o ToString(n)

\* Map.prototype.has
Has(map, docId) == \E i \in 1..Len(map) : map[i].docId = docId

\* Map.prototype.get, for a key the map has
Get(map, docId) == map[CHOOSE i \in 1..Len(map) : map[i].docId = docId]

\* Map.prototype.set: a new key is appended, an existing key keeps its place
MapSet(map, docId, entry) ==
  IF Has(map, docId)
  THEN [i \in 1..Len(map) |-> IF map[i].docId = docId THEN entry ELSE map[i]]
  ELSE Append(map, entry)

\* Map.prototype.delete
MapDelete(map, docId) == SelectSeq(map, LAMBDA e : e.docId # docId)

(***************************************************************************)
(* Array.prototype.sort((a, b) => b.score - a.score): descending by score, *)
(* stable (ECMAScript 2019), so equal scores keep their order.             *)
(***************************************************************************)
\* a variant of InsertByScore that puts an element before its equals
InsertByScore_Unstable(acc, x) ==
  LET n == Cardinality({i \in 1..Len(acc) : acc[i].score > x.score})
  IN SubSeq(acc, 1, n) \o <<x>> \o SubSeq(acc, n + 1, Len(acc))

InsertByScore(acc, x) ==
  LET n == Cardinality({i \in 1..Len(acc) : acc[i].score >= x.score})
  IN SubSeq(acc, 1, n) \o <<x>> \o SubSeq(acc, n + 1, Len(acc))

RECURSIVE SortFrom(_, _, _)
SortFrom(seq, k, acc) ==
  IF k > Len(seq) THEN acc ELSE SortFrom(seq, k + 1, InsertByScore(acc, seq[k]))

\* a variant of SortByScoreDesc that leaves the array as it is
SortByScoreDesc_None(seq) == seq

SortByScoreDesc(seq) == SortFrom(seq, 1, <<>>)

\* a variant of SliceTo that keeps the whole array
SliceTo_All(seq, n) == seq

\* Array.prototype.slice(0, n) for n >= 0
SliceTo(seq, n) == SubSeq(seq, 1, Min(n, Len(seq)))

(***************************************************************************)
(* searchDocuments of main.ts.                                             *)
(***************************************************************************)
\* the chunks of one Map entry that score > 0, in array order
MatchesOfDoc(entry, queryWords) ==
  LET scored == [j \in 1..Len(entry.chunks) |->
                   [docId |-> entry.docId,
                    docName |-> entry.chunks[j].docName,
                    chunkIndex |-> entry.chunks[j].chunkIndex,
                    text |-> entry.chunks[j].text,
                    score |-> ChunkScore(entry.chunks[j].text, queryWords)]]
  IN SelectSeq(scored, LAMBDA m : m.score > 0)

RECURSIVE MatchesFrom(_, _, _)
MatchesFrom(map, queryWords, i) ==
  IF i > Len(map) THEN <<>>
  ELSE MatchesOfDoc(map[i], queryWords) \o MatchesFrom(map, queryWords, i + 1)

\* matchingChunks after the scoring loops: Map order, then array order
matchingChunks(queryWords) == MatchesFrom(documentChunks, queryWords, 1)

\* a variant of selectedChunks that cuts the array before sorting it
selectedChunks_CutFirst(queryWords, topK) ==
  LET mc == matchingChunks(queryWords)
  IN SortFrom(SubSeq(mc, 1, Min(topK, Len(mc))), 1, <<>>)

\* selectedChunks = matchingChunks.sort(...).slice(0, Math.min(topK, length))
selectedChunks(queryWords, topK) ==
  LET sorted == SortByScoreDesc(matchingChunks(queryWords))
  IN SliceTo(sorted, Min(topK, Len(sorted)))

RECURSIVE JoinLines(_)
\* Array.prototype.join('\n')
JoinLines(texts) ==
  IF texts = <<>> THEN <<>>
  ELSE IF Len(texts) = 1 THEN texts[1]
  ELSE texts[1] \o <<"\n">> \o JoinLines(Tail(texts))

RECURSIVE CombineFrom(_, _, _)
\* for (let i = startIdx; i <= endIdx; i++) { docChunks.find(c => c.chunkIndex === i) ... }
CombineFrom(docChunks, i, endIdx) ==
  IF i > endIdx THEN <<>>
  ELSE LET found == {j \in 1..Len(docChunks) : docChunks[j].chunkIndex = i}
       IN (IF found = {} THEN <<>>
           ELSE <<docChunks[CHOOSE j \in found : \A k \in found : j <= k].text>>)
          \o CombineFrom(docChunks, i + 1, endIdx)

StartIdx(match) == Max(0, match.chunkIndex - 1)

\* a variant of EndIdx that leaves the following chunk out
EndIdx_NoNext(match, docChunks) == Min(Len(docChunks) - 1, match.chunkIndex)

EndIdx(match, docChunks) == Min(Len(docChunks) - 1, match.chunkIndex + 1)

\* const key = `${match.docId}-${startIdx}-${endIdx}`
ExpansionKey(docId, startIdx, endIdx) ==
  docId \o "-" \o ToString(startIdx) \o "-" \o ToString(endIdx)

\* a variant of ExpandOne that stores a result for every seed
ExpandOne_NoDedup(expanded, match) ==
  LET docChunks == Get(documentChunks, match.docId).chunks
      startIdx == Max(0, match.chunkIndex - 1)
      endIdx == Min(Len(docChunks) - 1, match.chunkIndex + 1)
  IN Append(expanded,
       [key |-> match.docId \o "-" \o ToString(startIdx) \o "-" \o ToString(endIdx),
        docName |-> match.docName,
        text |-> JoinLines(CombineFrom(docChunks, startIdx, endIdx)),
        score |-> match.score])

\* one pass of the expansion loop over the Map expandedResults (entries in
\* insertion order)
ExpandOne(expanded, match) ==
  IF ~Has(documentChunks, match.docId) THEN expanded
  ELSE LET docChunks == Get(documentChunks, match.docId).chunks
           startIdx == StartIdx(match)
           endIdx == EndIdx(match, docChunks)
           key == ExpansionKey(match.docId, startIdx, endIdx)
       IN IF \E e \in 1..Len(expanded) : expanded[e].key = key
          THEN expanded
          ELSE Append(expanded,
                 [key |-> key,
                  docName |-> match.docName,
                  text |-> JoinLines(CombineFrom(docChunks, startIdx, endIdx)),
                  score |-> match.score])

RECURSIVE ExpandFrom(_, _, _)
ExpandFrom(selected, k, expanded) ==
  IF k > Len(selected) THEN expanded
  ELSE ExpandFrom(selected, k + 1, ExpandOne(expanded, selected[k]))

\* expandedResults after the expansion loop
expandedResults(selected) == ExpandFrom(selected, 1, <<>>)

\* Array.from(expandedResults.values()): the values without their keys
Values(expanded) ==
  [e \in 1..Len(expanded) |->
     [docName |-> expanded[e].docName, text |-> expanded[e].text,
      score |-> expanded[e].score]]

\* the scoring loops visit at least one chunk
HasChunk(map) == \E i \in 1..Len(map) : Len(map[i].chunks) > 0

\* searchDocuments(query, topK) of main.ts with its locals: threw says that a
\* RegExp constructor call threw a SyntaxError, out is the array returned
SearchLocals(query, topK) ==
  LET queryWords == QueryWords(query)
      selected == selectedChunks(queryWords, topK)
      expanded == expandedResults(selected)
      matching == matchingChunks(queryWords)
      none == [threw |-> FALSE, out |-> <<>>, matching |-> <<>>, selected |-> <<>>,
               expanded |-> <<>>]
  IN IF Len(query) = 0 \/ IsBlank(query) THEN none
     ELSE IF Len(queryWords) = 0 THEN none
     ELSE IF HasChunk(documentChunks) /\ ScoringThrows(queryWords)
          THEN [threw |-> TRUE, out |-> <<>>, matching |-> <<>>, selected |-> <<>>,
                expanded |-> <<>>]
          ELSE [threw |-> FALSE,
                out |-> SliceTo(SortByScoreDesc(Values(expanded)), topK),
                matching |-> matching, selected |-> selected,
                expanded |-> expanded]

searchDocuments(query, topK) ==
  [threw |-> SearchLocals(query, topK).threw, out |-> SearchLocals(query, topK).out]

(***************************************************************************)
(* searchDocuments of utils/search.ts: the same scoring over a Map passed  *)
(* as an argument, no neighbor expansion.                                  *)
(***************************************************************************)
RECURSIVE UtilsResultsFrom(_, _, _)
UtilsResultsFrom(map, queryWords, i) ==
  IF i > Len(map) THEN <<>>
  ELSE LET scored == [j \in 1..Len(map[i].chunks) |->
                        [docName |-> map[i].chunks[j].docName,
                         text |-> map[i].chunks[j].text,
                         score |-> ChunkScore(map[i].chunks[j].text, queryWords)]]
       IN SelectSeq(scored, LAMBDA r : r.score > 0)
          \o UtilsResultsFrom(map, queryWords, i + 1)

searchDocuments_utils(query, chunksMap, topK) ==
  IF Len(query) = 0 \/ IsBlank(query) THEN [threw |-> FALSE, out |-> <<>>]
  ELSE LET queryWords == QueryWords(query)
       IN IF Len(queryWords) = 0 THEN [threw |-> FALSE, out |-> <<>>]
          ELSE IF HasChunk(chunksMap) /\ ScoringThrows(queryWords)
               THEN [threw |-> TRUE, out |-> <<>>]
               ELSE [threw |-> FALSE,
                     out |-> SliceTo(SortByScoreDesc(
                               UtilsResultsFrom(chunksMap, queryWords, 1)), topK)]

(***************************************************************************)
(* Inputs.                                                                 *)
(***************************************************************************)
\* chunk texts: "xabc-Abcd" (abc inside a word, then at the start of a word
\* after a hyphen, in upper case and as a prefix) and "abc abd"
TextOne == <<"x", "a", "b", "c", "-", "A", "b", "c", "d">>
TextTwo == <<"a", "b", "c", " ", "a", "b", "d">>
Texts == {TextOne, TextTwo}

\* queries: "", " \n", "ab a", "abc", "abd", " ABC  abd", "abc abc", "a.c", "(ab"
Queries == { <<>>,
             <<" ", "\n">>,
             <<"a", "b", " ", "a">>,
             <<"a", "b", "c">>,
             <<"a", "b", "d">>,
             <<" ", "A", "b", "c", " ", " ", "a", "b", "d">>,
             <<"a", "b", "c", " ", "a", "b", "c">>,
             <<"a", ".", "c">>,
             <<"(", "a", "b">> }

TopKs == 0..MaxTopK

FileNames == << <<"a", ".", "t", "x", "t">>, <<"b", ".", "m", "d">> >>

\* the outputs chunkDocument can give: up to MaxChunks chunk texts
ChunkLists == UNION {[1..m -> Texts] : m \in 0..MaxChunks}

\* a variant of ChunkObjects that numbers the chunks from 1
ChunkObjects_FromOne(docId, fileName, chunks) ==
  [j \in 1..Len(chunks) |->
     [docId |-> docId, docName |-> fileName, chunkIndex |-> j, text |-> chunks[j]]]

\* chunks.map((chunkText, index) => ({docId, docName: fileName, chunkIndex: index, text}))
ChunkObjects(docId, fileName, chunks) ==
  [j \in 1..Len(chunks) |->
     [docId |-> docId, docName |-> fileName, chunkIndex |-> j - 1, text |-> chunks[j]]]

ChunksEntry(docId, fileName, chunks) ==
  [docId |-> docId, chunks |-> ChunkObjects(docId, fileName, chunks)]

\* docMetadata: id, name and chunks (path, type and uploadedAt play no part)
MetaEntry(docId, fileName, chunks) ==
  [docId |-> docId, name |-> fileName, chunks |-> Len(chunks)]

NameOfDoc(n) == FileNames[((n - 1) % Len(FileNames)) + 1]

NoSearch == [impl |-> "none"]


\* the documents uploaded in the scenarios of the whole application: an empty
\* file, a file of one chunk, a file of three chunks
SampleLists == { <<>>, <<TextTwo>>, <<TextOne, TextTwo, TextOne>> }

\* the text a capture recognises and the message a chat sends: "abd", which
\* TextTwo alone matches
SampleQueries == { <<"a", "b", "d">> }

\* searchDocuments(text, 5) in capture-screenshot
CaptureTopK == 5
\* searchDocuments(data.message, 8) in chat-followup
ChatTopK == 8

\* the contents of a JSON file: written whole, or cut short by a failed write
Written(data) == [intact |-> TRUE, data |-> data]
Truncated == [intact |-> FALSE, data |-> <<>>]

Idle == [pc |-> "idle"]

NoInput == [query |-> <<>>, topK |-> 0]

NoPrompt == [called |-> FALSE]
NoValidation == [called |-> FALSE]

\* aiInitError: null, or the message of an error
NoError == [set |-> FALSE]
InitError(message) == [set |-> TRUE, message |-> message]

NoResult == [op |-> "none"]

\* the prompt builder, the validator, the AI service and the two handlers
\* that use them, before anything has run (main.ts:18-21)
AssistantIdle ==
  /\ lastPrompt = NoPrompt
  /\ lastValidation = NoValidation
  /\ aiService = "undefined"
  /\ aiInitializing = FALSE
  /\ aiInitialized = FALSE
  /\ aiInitError = NoError
  /\ phase3 = Idle
  /\ capture = Idle
  /\ chat = Idle
  /\ oracleCalls = 0
  /\ result = NoResult

\* the chat view before anything is typed (MainWindow: useState defaults)
RendererIdle ==
  renderer = [isSending |-> FALSE, rendered |-> FALSE, chatInput |-> "",
              chatHistory |-> <<>>, inFlight |-> 0]

\* the callers of ModelManager: initializePhase3 (through
\* AIService.initialize and ensureModel) and the two model handlers
Callers == {"init", "get-model-status", "download-model"}

\* a caller that is not inside ModelManager, and has not called downloadModel
Resting == [pc |-> "idle", download |-> "none"]

\* no model file, no caller of ModelManager at work, no status sent
ModelIdle ==
  /\ modelFile = "absent"
  /\ procs = [c \in Callers |-> Resting]
  /\ pendingUnlinks = 0
  /\ aiStatus = {}

\* DEFAULT_SETTINGS.captureShortcut
DefaultShortcut == "CommandOrControl+Alt+S"

\* settings.json does not exist
NoFile == [exists |-> FALSE]

\* the app before app.whenReady has fired (the data directory is there)
StartupIdle ==
  /\ startup = Idle
  /\ currentSettings = DefaultShortcut
  /\ settingsFile = NoFile
  /\ registered = {}
  /\ available = {}
  /\ dataDir = TRUE
  /\ phase2 = Idle

\* the renderer, the model manager and the startup sequence at rest
ShellIdle == RendererIdle /\ ModelIdle /\ StartupIdle

\* the empty store: no document, both files written empty, no handler in flight
StoreEmpty ==
  /\ documentChunks = <<>>
  /\ documentsMetadata = <<>>
  /\ chunksFile = Written(<<>>)
  /\ metadataFile = Written(<<>>)
  /\ storedFiles = {}
  /\ nextDoc = 0
  /\ upload = Idle
  /\ delete = Idle
  /\ deleted = {}
  /\ done = [op |-> "none"]

\* the record of one call of searchDocuments of main.ts
MainCall(query, topK) ==
  LET l == SearchLocals(query, topK)
  IN [impl |-> "main", query |-> query, topK |-> topK,
      threw |-> l.threw, out |-> l.out,
      matched |-> {l.matching[i].docId : i \in 1..Len(l.matching)},
      selected |-> l.selected, expanded |-> l.expanded, deleted |-> deleted]

\* the record of one call of searchDocuments of utils/search.ts on the store
UtilsCall(query, topK) ==
  [impl |-> "utils", query |-> query, topK |-> topK,
   threw |-> searchDocuments_utils(query, documentChunks, topK).threw,
   out |-> searchDocuments_utils(query, documentChunks, topK).out,
   matched |-> {}, selected |-> <<>>, expanded |-> <<>>, deleted |-> deleted]

(***************************************************************************)
(* The retriever on its own: a store and the arguments are drawn, and the  *)
(* two search functions are applied to them.                               *)
(***************************************************************************)
StoreOf(lists) ==
  [i \in 1..Len(lists) |-> ChunksEntry(DocId(i), NameOfDoc(i), lists[i])]

MetadataOf(lists) ==
  [i \in 1..Len(lists) |-> MetaEntry(DocId(i), NameOfDoc(i), lists[i])]

RECURSIVE TotalChunks(_)
TotalChunks(lists) ==
  IF lists = <<>> THEN 0 ELSE Len(lists[1]) + TotalChunks(Tail(lists))

InitSearch ==
  \E n \in 0..MaxDocs : \E lists \in [1..n -> ChunkLists] :
    \E q \in Queries, k \in TopKs :
      /\ TotalChunks(lists) <= MaxStoreChunks
      /\ documentChunks = StoreOf(lists)
      /\ documentsMetadata = MetadataOf(lists)
      /\ chunksFile = Written(StoreOf(lists))
      /\ metadataFile = Written(MetadataOf(lists))
      /\ storedFiles = {DocId(i) : i \in 1..n}
      /\ nextDoc = n
      /\ upload = Idle
      /\ delete = Idle
      /\ deleted = {}
      /\ done = [op |-> "none"]
      /\ input = [query |-> q, topK |-> k]
      /\ lastSearch = NoSearch
      /\ AssistantIdle
      /\ ShellIdle
\* a variant of Search in which the Map removal of a waiting delete-document
\* runs before the call has returned
Search_DuringDelete(query, topK) ==
  /\ lastSearch' = MainCall(query, topK)
  /\ IF delete.pc = "unlinking" /\ delete.docId \in storedFiles
     THEN /\ storedFiles' = storedFiles \ {delete.docId}
          /\ documentChunks' = MapDelete(documentChunks, delete.docId)
          /\ delete' = [pc |-> "savingChunks", docId |-> delete.docId,
                        removed |-> IF Has(documentChunks, delete.docId)
                                    THEN Get(documentChunks, delete.docId).chunks ELSE <<>>,
                        snapshot |-> documentChunks']
     ELSE UNCHANGED <<shellVars, documentChunks, storedFiles, delete>>
  /\ UNCHANGED <<shellVars, assistantVars, documentsMetadata, chunksFile, metadataFile,
                 nextDoc, upload, deleted, done, input>>

\* searchDocuments(query, topK) of main.ts is called and returns or throws
Search(query, topK) ==
  /\ lastSearch' = MainCall(query, topK)
  /\ UNCHANGED <<shellVars, assistantVars, documentChunks, documentsMetadata, chunksFile, metadataFile,
                 storedFiles, nextDoc, upload, delete, deleted, done, input>>

\* searchDocuments(query, documentChunks, topK) of utils/search.ts
SearchUtils(query, topK) ==
  /\ lastSearch' = UtilsCall(query, topK)
  /\ UNCHANGED <<shellVars, assistantVars, documentChunks, documentsMetadata, chunksFile, metadataFile,
                 storedFiles, nextDoc, upload, delete, deleted, done, input>>

SearchInput == Search(input.query, input.topK)

SearchUtilsInput == SearchUtils(input.query, input.topK)

NextSearch == SearchInput \/ SearchUtilsInput

SpecSearch == InitSearch /\ [][NextSearch]_vars


(***************************************************************************)
(* The whole application: upload-document, delete-document and the         *)
(* searches of capture-screenshot and chat-followup.  A handler runs       *)
(* until its next await; there the other handlers may run.                 *)
(***************************************************************************)
Init ==
  /\ documentChunks = <<>>
  /\ documentsMetadata = <<>>
  /\ chunksFile = Written(<<>>)
  /\ metadataFile = Written(<<>>)
  /\ storedFiles = {}
  /\ nextDoc = 0
  /\ upload = Idle
  /\ delete = Idle
  /\ deleted = {}
  /\ done = [op |-> "none"]
  /\ input = NoInput
  /\ lastSearch = NoSearch
  /\ AssistantIdle
  /\ ShellIdle
Failure(op, docId) == [op |-> op, ok |-> FALSE, docId |-> docId]
Success(op, docId) == [op |-> op, ok |-> TRUE, docId |-> docId]

\* upload-document: the dialog is cancelled, { success: false } is returned
UploadCancel ==
  /\ upload.pc = "idle"
  /\ done' = Failure("upload", "")
  /\ UNCHANGED <<shellVars, assistantVars, documentChunks, documentsMetadata, chunksFile, metadataFile,
                 storedFiles, nextDoc, upload, delete, deleted, input, lastSearch>>

\* upload-document: a file is chosen, docId = randomUUID(), text extraction
\* and chunking are awaited
UploadBegin ==
  /\ upload.pc = "idle"
  /\ nextDoc < MaxDocs
  /\ nextDoc' = nextDoc + 1
  /\ upload' = [pc |-> "extracting", docId |-> DocId(nextDoc + 1),
                fileName |-> NameOfDoc(nextDoc + 1)]
  /\ UNCHANGED <<shellVars, assistantVars, documentChunks, documentsMetadata, chunksFile, metadataFile,
                 storedFiles, delete, deleted, done, input, lastSearch>>

\* extractTextFromPDF / extractTextFromFile / chunkDocument throws
UploadExtractFail ==
  /\ upload.pc = "extracting"
  /\ upload' = Idle
  /\ done' = Failure("upload", upload.docId)
  /\ UNCHANGED <<shellVars, assistantVars, documentChunks, documentsMetadata, chunksFile, metadataFile,
                 storedFiles, nextDoc, delete, deleted, input, lastSearch>>

\* chunkDocument resolves: documentChunks.set(docId, chunkObjects), then
\* saveChunks() serialises the Map and awaits the write
UploadStoreChunks(chunks) ==
  /\ upload.pc = "extracting"
  /\ documentChunks' = MapSet(documentChunks, upload.docId,
                              ChunksEntry(upload.docId, upload.fileName, chunks))
  /\ upload' = [pc |-> "savingChunks", docId |-> upload.docId,
                fileName |-> upload.fileName, chunks |-> chunks,
                snapshot |-> documentChunks']
  /\ UNCHANGED <<shellVars, assistantVars, documentsMetadata, chunksFile, metadataFile, storedFiles, nextDoc,
                 delete, deleted, done, input, lastSearch>>

\* the write of saveChunks succeeds; fs.copyFile is awaited
UploadSaveChunksDone ==
  /\ upload.pc = "savingChunks"
  /\ chunksFile' = Written(upload.snapshot)
  /\ upload' = [pc |-> "copying", docId |-> upload.docId,
                fileName |-> upload.fileName, chunks |-> upload.chunks]
  /\ UNCHANGED <<shellVars, assistantVars, documentChunks, documentsMetadata, metadataFile, storedFiles,
                 nextDoc, delete, deleted, done, input, lastSearch>>

\* the write of saveChunks fails: the file is as before or cut short
UploadSaveChunksFail ==
  /\ upload.pc = "savingChunks"
  /\ chunksFile' \in {chunksFile, Truncated}
  /\ upload' = Idle
  /\ done' = Failure("upload", upload.docId)
  /\ UNCHANGED <<shellVars, assistantVars, documentChunks, documentsMetadata, metadataFile, storedFiles,
                 nextDoc, delete, deleted, input, lastSearch>>

\* fs.copyFile succeeds: documentsMetadata.set(docId, docMetadata), then
\* saveMetadata() serialises the Map and awaits the write
UploadCopyDone ==
  /\ upload.pc = "copying"
  /\ storedFiles' = storedFiles \cup {upload.docId}
  /\ documentsMetadata' = MapSet(documentsMetadata, upload.docId,
                                 MetaEntry(upload.docId, upload.fileName, upload.chunks))
  /\ upload' = [pc |-> "savingMeta", docId |-> upload.docId,
                snapshot |-> documentsMetadata']
  /\ UNCHANGED <<shellVars, assistantVars, documentChunks, chunksFile, metadataFile, nextDoc, delete, deleted,
                 done, input, lastSearch>>

\* fs.copyFile fails
UploadCopyFail ==
  /\ upload.pc = "copying"
  /\ upload' = Idle
  /\ done' = Failure("upload", upload.docId)
  /\ UNCHANGED <<shellVars, assistantVars, documentChunks, documentsMetadata, chunksFile, metadataFile,
                 storedFiles, nextDoc, delete, deleted, input, lastSearch>>

\* the write of saveMetadata succeeds: { success: true, document } is returned
UploadSaveMetaDone ==
  /\ upload.pc = "savingMeta"
  /\ metadataFile' = Written(upload.snapshot)
  /\ upload' = Idle
  /\ done' = Success("upload", upload.docId)
  /\ UNCHANGED <<shellVars, assistantVars, documentChunks, documentsMetadata, chunksFile, storedFiles, nextDoc,
                 delete, deleted, input, lastSearch>>

\* the write of saveMetadata fails
UploadSaveMetaFail ==
  /\ upload.pc = "savingMeta"
  /\ metadataFile' \in {metadataFile, Truncated}
  /\ upload' = Idle
  /\ done' = Failure("upload", upload.docId)
  /\ UNCHANGED <<shellVars, assistantVars, documentChunks, documentsMetadata, chunksFile, storedFiles, nextDoc,
                 delete, deleted, input, lastSearch>>

\* delete-document: documentsMetadata.get(docId) is undefined, the handler throws
DeleteNotFound(docId) ==
  /\ delete.pc = "idle"
  /\ ~Has(documentsMetadata, docId)
  /\ done' = Failure("delete", docId)
  /\ UNCHANGED <<shellVars, assistantVars, documentChunks, documentsMetadata, chunksFile, metadataFile,
                 storedFiles, nextDoc, upload, delete, deleted, input, lastSearch>>

\* delete-document: the document is found, fs.unlink(doc.path) is awaited
DeleteBegin(docId) ==
  /\ delete.pc = "idle"
  /\ Has(documentsMetadata, docId)
  /\ delete' = [pc |-> "unlinking", docId |-> docId]
  /\ UNCHANGED <<shellVars, assistantVars, documentChunks, documentsMetadata, chunksFile, metadataFile,
                 storedFiles, nextDoc, upload, deleted, done, input, lastSearch>>

\* fs.unlink fails, the handler rethrows
DeleteUnlinkFail ==
  /\ delete.pc = "unlinking"
  /\ delete' = Idle
  /\ done' = Failure("delete", delete.docId)
  /\ UNCHANGED <<shellVars, assistantVars, documentChunks, documentsMetadata, chunksFile, metadataFile,
                 storedFiles, nextDoc, upload, deleted, input, lastSearch>>

\* a variant of DeleteUnlinkDone that leaves the chunks in documentChunks
DeleteUnlinkDone_KeepChunks ==
  /\ delete.pc = "unlinking"
  /\ delete.docId \in storedFiles
  /\ storedFiles' = storedFiles \ {delete.docId}
  /\ delete' = [pc |-> "savingChunks", docId |-> delete.docId,
                removed |-> IF Has(documentChunks, delete.docId)
                            THEN Get(documentChunks, delete.docId).chunks ELSE <<>>,
                snapshot |-> documentChunks]
  /\ UNCHANGED <<shellVars, assistantVars, documentChunks, documentsMetadata, chunksFile, metadataFile, nextDoc,
                 upload, deleted, done, input, lastSearch>>

\* fs.unlink succeeds: documentChunks.delete(docId), then saveChunks()
DeleteUnlinkDone ==
  /\ delete.pc = "unlinking"
  /\ delete.docId \in storedFiles
  /\ storedFiles' = storedFiles \ {delete.docId}
  /\ documentChunks' = MapDelete(documentChunks, delete.docId)
  /\ delete' = [pc |-> "savingChunks", docId |-> delete.docId,
                removed |-> IF Has(documentChunks, delete.docId)
                            THEN Get(documentChunks, delete.docId).chunks ELSE <<>>,
                snapshot |-> documentChunks']
  /\ UNCHANGED <<shellVars, assistantVars, documentsMetadata, chunksFile, metadataFile, nextDoc, upload,
                 deleted, done, input, lastSearch>>

\* the write of saveChunks fails, the handler rethrows
DeleteSaveChunksFail ==
  /\ delete.pc = "savingChunks"
  /\ chunksFile' \in {chunksFile, Truncated}
  /\ delete' = Idle
  /\ done' = Failure("delete", delete.docId)
  /\ UNCHANGED <<shellVars, assistantVars, documentChunks, documentsMetadata, metadataFile, storedFiles,
                 nextDoc, upload, deleted, input, lastSearch>>

\* the write of saveChunks succeeds: documentsMetadata.delete(docId), then
\* saveMetadata()
DeleteSaveChunksDone ==
  /\ delete.pc = "savingChunks"
  /\ chunksFile' = Written(delete.snapshot)
  /\ documentsMetadata' = MapDelete(documentsMetadata, delete.docId)
  /\ delete' = [pc |-> "savingMeta", docId |-> delete.docId,
                removed |-> delete.removed, snapshot |-> documentsMetadata']
  /\ UNCHANGED <<shellVars, assistantVars, documentChunks, metadataFile, storedFiles, nextDoc, upload, deleted,
                 done, input, lastSearch>>

\* the write of saveMetadata fails, the handler rethrows
DeleteSaveMetaFail ==
  /\ delete.pc = "savingMeta"
  /\ metadataFile' \in {metadataFile, Truncated}
  /\ delete' = Idle
  /\ done' = Failure("delete", delete.docId)
  /\ UNCHANGED <<shellVars, assistantVars, documentChunks, documentsMetadata, chunksFile, storedFiles, nextDoc,
                 upload, deleted, input, lastSearch>>

\* the write of saveMetadata succeeds: delete-document resolves
DeleteSaveMetaDone ==
  /\ delete.pc = "savingMeta"
  /\ metadataFile' = Written(delete.snapshot)
  /\ delete' = Idle
  /\ done' = Success("delete", delete.docId)
  /\ deleted' = deleted \cup {[docId |-> delete.docId, chunks |-> delete.removed]}
  /\ UNCHANGED <<shellVars, assistantVars, documentChunks, documentsMetadata, chunksFile, storedFiles, nextDoc,
                 upload, input, lastSearch>>

\* capture-screenshot: const relevantDocs = searchDocuments(text, 5)
CaptureSearch(text) == Search(text, CaptureTopK)

\* chat-followup: relevantDocs = searchDocuments(data.message, 8)
ChatSearch(message) == Search(message, ChatTopK)

DocIds == {DocId(n) : n \in 1..MaxDocs}

Next ==
  \/ UploadCancel
  \/ UploadBegin
  \/ UploadExtractFail
  \/ \E chunks \in SampleLists : UploadStoreChunks(chunks)
  \/ UploadSaveChunksDone
  \/ UploadSaveChunksFail
  \/ UploadCopyDone
  \/ UploadCopyFail
  \/ UploadSaveMetaDone
  \/ UploadSaveMetaFail
  \/ \E docId \in DocIds : DeleteNotFound(docId)
  \/ \E docId \in DocIds : DeleteBegin(docId)
  \/ DeleteUnlinkFail
  \/ DeleteUnlinkDone
  \/ DeleteSaveChunksFail
  \/ DeleteSaveChunksDone
  \/ DeleteSaveMetaFail
  \/ DeleteSaveMetaDone
  \/ \E text \in SampleQueries : CaptureSearch(text)
  \/ \E message \in SampleQueries : ChatSearch(message)

Spec == Init /\ [][Next]_vars


(***************************************************************************)
(* The prompt builder and the response validator of main.ts.  The          *)
(* characters outside ASCII are written by their code unit: "U+274C" is    *)
(* the cross mark, "U+26A0" "U+FE0F" the warning sign.                     *)
(***************************************************************************)
\* String.prototype.includes
includes(s, phrase) ==
  \E i \in 1..(Len(s) - Len(phrase) + 1) : SubSeq(s, i, i + Len(phrase) - 1) = phrase

\* a variant of trim that leaves the string as it is
trim_Keep(s) == s

\* String.prototype.trim
trim(s) ==
  IF \A i \in 1..Len(s) : IsSpace(s[i]) THEN <<>>
  ELSE LET lo == CHOOSE i \in 1..Len(s) :
                   ~IsSpace(s[i]) /\ \A k \in 1..(i - 1) : IsSpace(s[k])
           hi == CHOOSE i \in 1..Len(s) :
                   ~IsSpace(s[i]) /\ \A k \in (i + 1)..Len(s) : IsSpace(s[k])
       IN SubSeq(s, lo, hi)

\* Array.prototype.join('\n\n')
RECURSIVE JoinBlankLines(_)
JoinBlankLines(texts) ==
  IF texts = <<>> THEN <<>>
  ELSE IF Len(texts) = 1 THEN texts[1]
  ELSE texts[1] \o <<"\n", "\n">> \o JoinBlankLines(Tail(texts))

\* const baseRules: the rule block and the formatting rule block
baseRules ==
  <<"Y", "o", "u", " ", "a", "r", "e", " ", "a", " ", "d", "o", "c", "u",
    "m", "e", "n", "t", "a", "t", "i", "o", "n", " ", "a", "s", "s", "i",
    "s", "t", "a", "n", "t", ".", " ", "Y", "o", "u", "r", " ", "O", "N",
    "L", "Y", " ", "j", "o", "b", " ", "i", "s", " ", "t", "o", " ", "e",
    "x", "t", "r", "a", "c", "t", " ", "a", "n", "d", " ", "p", "r", "e",
    "s", "e", "n", "t", " ", "i", "n", "f", "o", "r", "m", "a", "t", "i",
    "o", "n", " ", "E", "X", "A", "C", "T", "L", "Y", " ", "a", "s", " ",
    "i", "t", " ", "a", "p", "p", "e", "a", "r", "s", " ", "i", "n", " ",
    "t", "h", "e", " ", "p", "r", "o", "v", "i", "d", "e", "d", " ", "d",
    "o", "c", "u", "m", "e", "n", "t", "a", "t", "i", "o", "n", ".", "\n",
    "\n", "C", "R", "I", "T", "I", "C", "A", "L", " ", "R", "U", "L", "E",
    "S", " ", "(", "N", "E", "V", "E", "R", " ", "V", "I", "O", "L", "A",
    "T", "E", ")", ":", "\n", "1", ".", " ", "I", "f", " ", "i", "n", "f",
    "o", "r", "m", "a", "t", "i", "o", "n", " ", "i", "s", " ", "N", "O",
    "T", " ", "i", "n", " ", "t", "h", "e", " ", "d", "o", "c", "u", "m",
    "e", "n", "t", "a", "t", "i", "o", "n", " ", "b", "e", "l", "o", "w",
    ",", " ", "s", "a", "y", " ", "\"", "I", " ", "c", "a", "n", "n", "o",
    "t", " ", "f", "i", "n", "d", " ", "t", "h", "i", "s", " ", "i", "n",
    "f", "o", "r", "m", "a", "t", "i", "o", "n", " ", "i", "n", " ", "t",
    "h", "e", " ", "d", "o", "c", "u", "m", "e", "n", "t", "a", "t", "i",
    "o", "n", "\"", "\n", "2", ".", " ", "N", "E", "V", "E", "R", " ", "m",
    "a", "k", "e", " ", "u", "p", ",", " ", "i", "n", "f", "e", "r", ",",
    " ", "o", "r", " ", "g", "e", "n", "e", "r", "a", "t", "e", " ", "i",
    "n", "f", "o", "r", "m", "a", "t", "i", "o", "n", "\n", "3", ".", " ",
    "N", "E", "V", "E", "R", " ", "c", "o", "m", "p", "l", "e", "t", "e",
    " ", "i", "n", "c", "o", "m", "p", "l", "e", "t", "e", " ", "i", "n",
    "f", "o", "r", "m", "a", "t", "i", "o", "n", " ", "-", " ", "i", "f",
    " ", "s", "t", "e", "p", "s", " ", "a", "r", "e", " ", "c", "u", "t",
    " ", "o", "f", "f", ",", " ", "s", "t", "o", "p", " ", "t", "h", "e",
    "r", "e", "\n", "4", ".", " ", "O", "N", "L", "Y", " ", "u", "s", "e",
    " ", "d", "i", "r", "e", "c", "t", " ", "q", "u", "o", "t", "e", "s",
    " ", "a", "n", "d", " ", "e", "x", "a", "c", "t", " ", "i", "n", "f",
    "o", "r", "m", "a", "t", "i", "o", "n", " ", "f", "r", "o", "m", " ",
    "t", "h", "e", " ", "d", "o", "c", "u", "m", "e", "n", "t", "a", "t",
    "i", "o", "n", "\n", "5", ".", " ", "I", "f", " ", "y", "o", "u", "'",
    "r", "e", " ", "u", "n", "s", "u", "r", "e", ",", " ", "s", "a", "y",
    " ", "y", "o", "u", " ", "d", "o", "n", "'", "t", " ", "k", "n", "o",
    "w", "\n", "\n", "F", "O", "R", "M", "A", "T", " ", "Y", "O", "U", "R",
    " ", "R", "E", "S", "P", "O", "N", "S", "E", ":", "\n", "-", " ", "P",
    "u", "t", " ", "p", "r", "o", "c", "e", "d", "u", "r", "e", " ", "t",
    "i", "t", "l", "e", "s", " ", "o", "n", " ", "t", "h", "e", "i", "r",
    " ", "o", "w", "n", " ", "l", "i", "n", "e", " ", "(", "n", "o", " ",
    "n", "u", "m", "b", "e", "r", " ", "b", "e", "f", "o", "r", "e", " ",
    "t", "h", "e", " ", "t", "i", "t", "l", "e", ")", "\n", "-", " ", "P",
    "u", "t", " ", "e", "a", "c", "h", " ", "s", "t", "e", "p", " ", "o",
    "n", " ", "a", " ", "n", "e", "w", " ", "l", "i", "n", "e", " ", "w",
    "i", "t", "h", " ", "p", "r", "o", "p", "e", "r", " ", "n", "u", "m",
    "b", "e", "r", "i", "n", "g", " ", "(", "1", ".", ",", " ", "2", ".",
    ",", " ", "3", ".", ")", "\n", "-", " ", "A", "d", "d", " ", "b", "l",
    "a", "n", "k", " ", "l", "i", "n", "e", "s", " ", "b", "e", "t", "w",
    "e", "e", "n", " ", "s", "e", "c", "t", "i", "o", "n", "s", "\n", "-",
    " ", "I", "n", "c", "l", "u", "d", "e", " ", "A", "L", "L", " ", "s",
    "t", "e", "p", "s", " ", "E", "X", "A", "C", "T", "L", "Y", " ", "a",
    "s", " ", "w", "r", "i", "t", "t", "e", "n", " ", "i", "n", " ", "t",
    "h", "e", " ", "d", "o", "c", "u", "m", "e", "n", "t", "a", "t", "i",
    "o", "n", "\n", "-", " ", "S", "t", "o", "p", " ", "i", "m", "m", "e",
    "d", "i", "a", "t", "e", "l", "y", " ", "w", "h", "e", "n", " ", "t",
    "h", "e", " ", "d", "o", "c", "u", "m", "e", "n", "t", "a", "t", "i",
    "o", "n", " ", "e", "n", "d", "s", " ", "-", " ", "d", "o", " ", "N",
    "O", "T", " ", "c", "o", "n", "t", "i", "n", "u", "e", " ", "o", "r",
    " ", "c", "o", "m", "p", "l", "e", "t", "e", " ", "t", "h", "e", " ",
    "t", "h", "o", "u", "g", "h", "t", "\n", "\n", "C", "I", "T", "E", " ",
    "S", "O", "U", "R", "C", "E", "S", ":", "\n", "-", " ", "A", "l", "w",
    "a", "y", "s", " ", "c", "i", "t", "e", ":", " ", "[", "S", "o", "u",
    "r", "c", "e", ":", " ", "f", "i", "l", "e", "n", "a", "m", "e", ".",
    "p", "d", "f", "]", "\n", "-", " ", "N", "e", "v", "e", "r", " ", "a",
    "d", "d", " ", "a", "t", "t", "r", "i", "b", "u", "t", "i", "o", "n",
    "s", " ", "o", "r", " ", "s", "i", "g", "n", "a", "t", "u", "r", "e",
    "s", "\n", "\n", "W", "H", "A", "T", " ", "Y", "O", "U", " ", "M", "U",
    "S", "T", " ", "N", "E", "V", "E", "R", " ", "D", "O", ":", "\n", "-",
    " ", "U+274C", " ", "A", "d", "d", " ", "i", "n", "f", "o", "r", "m",
    "a", "t", "i", "o", "n", " ", "n", "o", "t", " ", "e", "x", "p", "l",
    "i", "c", "i", "t", "l", "y", " ", "i", "n", " ", "t", "h", "e", " ",
    "d", "o", "c", "u", "m", "e", "n", "t", "a", "t", "i", "o", "n", "\n",
    "-", " ", "U+274C", " ", "S", "u", "m", "m", "a", "r", "i", "z", "e",
    " ", "o", "r", " ", "p", "a", "r", "a", "p", "h", "r", "a", "s", "e",
    " ", "-", " ", "u", "s", "e", " ", "e", "x", "a", "c", "t", " ", "w",
    "o", "r", "d", "i", "n", "g", "\n", "-", " ", "U+274C", " ", "A", "d",
    "d", " ", "g", "e", "n", "e", "r", "i", "c", " ", "a", "d", "v", "i",
    "c", "e", " ", "o", "r", " ", "b", "e", "s", "t", " ", "p", "r", "a",
    "c", "t", "i", "c", "e", "s", "\n", "-", " ", "U+274C", " ", "C", "o",
    "m", "p", "l", "e", "t", "e", " ", "t", "r", "u", "n", "c", "a", "t",
    "e", "d", " ", "p", "r", "o", "c", "e", "d", "u", "r", "e", "s", "\n",
    "-", " ", "U+274C", " ", "A", "d", "d", " ", "a", "t", "t", "r", "i",
    "b", "u", "t", "i", "o", "n", "s", " ", "o", "r", " ", "s", "i", "g",
    "n", "a", "t", "u", "r", "e", "s">>

\* the fixed pieces of contextSection
ContextHead ==
  <<"\n", "\n", "C", "O", "N", "T", "E", "X", "T", " ", "F", "R", "O", "M",
    " ", "C", "A", "P", "T", "U", "R", "E", ":", "\n", "S", "c", "r", "e",
    "e", "n", " ", "c", "o", "n", "t", "e", "n", "t", ":", " ", "\"">>
ContextMiddle ==
  <<"\"", "\n", "P", "r", "e", "v", "i", "o", "u", "s", " ", "r", "e", "s",
    "p", "o", "n", "s", "e", ":", " ", "\"">>
ContextEnd ==
  <<"\"">>

\* the heading of the documentation block
DocsHead ==
  <<"\n", "\n", "D", "O", "C", "U", "M", "E", "N", "T", "A", "T", "I", "O",
    "N", ":", "\n">>

\* the fallback of an empty relevantDocs: instruction, sentence, closing quote
FallbackHead ==
  <<"\n", "\n", "N", "o", " ", "r", "e", "l", "e", "v", "a", "n", "t", " ",
    "d", "o", "c", "u", "m", "e", "n", "t", "a", "t", "i", "o", "n", " ",
    "f", "o", "u", "n", "d", ".", " ", "S", "a", "y", " ", "E", "X", "A",
    "C", "T", "L", "Y", ":", " ", "\"">>
FallbackSentence ==
  <<"I", " ", "c", "o", "u", "l", "d", " ", "n", "o", "t", " ", "f", "i",
    "n", "d", " ", "i", "n", "f", "o", "r", "m", "a", "t", "i", "o", "n",
    " ", "a", "b", "o", "u", "t", " ", "t", "h", "i", "s", " ", "i", "n",
    " ", "t", "h", "e", " ", "u", "p", "l", "o", "a", "d", "e", "d", " ",
    "d", "o", "c", "u", "m", "e", "n", "t", "s", ".", " ", "P", "l", "e",
    "a", "s", "e", " ", "u", "p", "l", "o", "a", "d", " ", "r", "e", "l",
    "e", "v", "a", "n", "t", " ", "d", "o", "c", "u", "m", "e", "n", "t",
    "a", "t", "i", "o", "n", " ", "o", "r", " ", "t", "r", "y", " ", "d",
    "i", "f", "f", "e", "r", "e", "n", "t", " ", "s", "e", "a", "r", "c",
    "h", " ", "k", "e", "y", "w", "o", "r", "d", "s", ".">>

\* captureContext: undefined, or an object with text and aiSolution
NoContext == [given |-> FALSE]
Context(text, aiSolution) == [given |-> TRUE, text |-> text, aiSolution |-> aiSolution]

\* let contextSection = ''; if (captureContext) { ... }
contextSection(captureContext) ==
  IF captureContext.given
  THEN ContextHead \o captureContext.text \o ContextMiddle
         \o captureContext.aiSolution \o ContextEnd
  ELSE <<>>

\* relevantDocs.map(doc => `[${doc.docName}]: ${doc.text}`)
DocLine(doc) == <<"[">> \o doc.docName \o <<"]", ":", " ">> \o doc.text

\* let docsSection = ''; if (relevantDocs.length > 0) { ... } else { ... }
docsSection(relevantDocs) ==
  IF Len(relevantDocs) > 0
  THEN DocsHead \o JoinBlankLines([i \in 1..Len(relevantDocs) |-> DocLine(relevantDocs[i])])
  ELSE FallbackHead \o FallbackSentence \o <<"\"">>

\* a variant of buildSystemPrompt that puts the documentation before the context
buildSystemPrompt_DocsFirst(relevantDocs, captureContext) ==
  baseRules \o docsSection(relevantDocs) \o contextSection(captureContext)

\* return `${baseRules}${contextSection}${docsSection}`
buildSystemPrompt(relevantDocs, captureContext) ==
  baseRules \o contextSection(captureContext) \o docsSection(relevantDocs)

\* a variant of noInfoPhrases without its last phrase
noInfoPhrases_Four ==
  << <<"c", "a", "n", "n", "o", "t", " ", "f", "i", "n", "d">>,
     <<"c", "o", "u", "l", "d", " ", "n", "o", "t", " ", "f", "i", "n", "d">>,
     <<"n", "o", " ", "i", "n", "f", "o", "r", "m", "a", "t", "i", "o", "n">>,
     <<"n", "o", "t", " ", "i", "n", " ", "t", "h", "e", " ", "d", "o", "c", "u",
       "m", "e", "n", "t", "a", "t", "i", "o", "n">> >>

\* const noInfoPhrases
noInfoPhrases ==
  << <<"c", "a", "n", "n", "o", "t", " ", "f", "i", "n", "d">>,
     <<"c", "o", "u", "l", "d", " ", "n", "o", "t", " ", "f", "i", "n", "d">>,
     <<"n", "o", " ", "i", "n", "f", "o", "r", "m", "a", "t", "i", "o", "n">>,
     <<"n", "o", "t", " ", "i", "n", " ", "t", "h", "e", " ", "d", "o", "c", "u",
       "m", "e", "n", "t", "a", "t", "i", "o", "n">>,
     <<"d", "o", "n", "'", "t", " ", "k", "n", "o", "w">> >>

\* const genericPhrases
genericPhrases ==
  << <<"b", "e", "s", "t", " ", "p", "r", "a", "c", "t", "i", "c", "e">>,
     <<"i", "t", " ", "i", "s", " ", "r", "e", "c", "o", "m", "m", "e", "n", "d",
       "e", "d">>,
     <<"y", "o", "u", " ", "s", "h", "o", "u", "l", "d">>,
     <<"t", "y", "p", "i", "c", "a", "l", "l", "y">>,
     <<"u", "s", "u", "a", "l", "l", "y">>,
     <<"i", "n", " ", "g", "e", "n", "e", "r", "a", "l">>,
     <<"s", "t", "a", "n", "d", "a", "r", "d", " ", "p", "r", "o", "c", "e", "d",
       "u", "r", "e", " ", "i", "s">> >>

\* the citation markers '[source:' and '[from '
SourceMarker ==
  <<"[", "s", "o", "u", "r", "c", "e", ":">>
FromMarker ==
  <<"[", "f", "r", "o", "m", " ">>

\* the two warnings
GenericWarning ==
  <<"U+26A0", "U+FE0F", " ", "W", "a", "r", "n", "i", "n", "g", ":", " ",
    "R", "e", "s", "p", "o", "n", "s", "e", " ", "m", "a", "y", " ", "c",
    "o", "n", "t", "a", "i", "n", " ", "g", "e", "n", "e", "r", "i", "c",
    " ", "i", "n", "f", "o", "r", "m", "a", "t", "i", "o", "n", " ", "n",
    "o", "t", " ", "f", "r", "o", "m", " ", "y", "o", "u", "r", " ", "d",
    "o", "c", "u", "m", "e", "n", "t", "s", ".">>
IncompleteWarning ==
  <<"U+26A0", "U+FE0F", " ", "W", "a", "r", "n", "i", "n", "g", ":", " ",
    "R", "e", "s", "p", "o", "n", "s", "e", " ", "s", "e", "e", "m", "s",
    " ", "i", "n", "c", "o", "m", "p", "l", "e", "t", "e", ".", " ", "T",
    "r", "y", " ", "r", "e", "p", "h", "r", "a", "s", "i", "n", "g", " ",
    "y", "o", "u", "r", " ", "q", "u", "e", "s", "t", "i", "o", "n", ".">>

\* { isValid: true }: warning is undefined, written as the empty string, which
\* the callers' test (!validation.isValid && validation.warning) treats alike
Valid == [isValid |-> TRUE, warning |-> <<>>]
Invalid(warning) == [isValid |-> FALSE, warning |-> warning]

\* phrases.some(phrase => lowerResponse.includes(phrase))
SomeIncluded(lowerResponse, phrases) ==
  \E k \in 1..Len(phrases) : includes(lowerResponse, phrases[k])

\* a variant of validateAIResponse that looks for the generic phrases in the
\* response as written, not in its lower-case form
validateAIResponse_CaseSensitive(response, relevantDocs) ==
  LET lowerResponse == toLowerCase(response)
      hasNoInfoPhrase == SomeIncluded(lowerResponse, noInfoPhrases)
      hasGenericPhrase == SomeIncluded(response, genericPhrases)
  IN IF hasNoInfoPhrase /\ Len(relevantDocs) = 0
     THEN Valid
     ELSE IF hasGenericPhrase /\ ~includes(lowerResponse, SourceMarker)
             /\ ~includes(lowerResponse, FromMarker)
     THEN Invalid(GenericWarning)
     ELSE IF Len(trim(response)) < 50 /\ Len(relevantDocs) > 0 /\ ~hasNoInfoPhrase
     THEN Invalid(IncompleteWarning)
     ELSE Valid

\* validateAIResponse(response, relevantDocs)
validateAIResponse(response, relevantDocs) ==
  LET lowerResponse == toLowerCase(response)
      hasNoInfoPhrase == SomeIncluded(lowerResponse, noInfoPhrases)
      hasGenericPhrase == SomeIncluded(lowerResponse, genericPhrases)
  IN IF hasNoInfoPhrase /\ Len(relevantDocs) = 0
     THEN Valid
     ELSE IF hasGenericPhrase /\ ~includes(lowerResponse, SourceMarker)
             /\ ~includes(lowerResponse, FromMarker)
     THEN Invalid(GenericWarning)
     ELSE IF Len(trim(response)) < 50 /\ Len(relevantDocs) > 0 /\ ~hasNoInfoPhrase
     THEN Invalid(IncompleteWarning)
     ELSE Valid

(***************************************************************************)
(* The prompt builder and the validator on their own: a response, a list   *)
(* of retrieved documents and a capture context are drawn, and the two     *)
(* functions are applied to them.                                          *)
(***************************************************************************)
\* generic advice, no citation
RespGeneric ==
  <<"Y", "o", "u", " ", "s", "h", "o", "u", "l", "d", " ", "t", "y", "p",
    "i", "c", "a", "l", "l", "y", " ", "r", "e", "s", "t", "a", "r", "t",
    " ", "t", "h", "e", " ", "d", "e", "v", "i", "c", "e", ".">>
\* generic advice that begins the sentence
RespGenericCapital ==
  <<"U", "s", "u", "a", "l", "l", "y", " ", "i", "t", " ", "w", "o", "r",
    "k", "s", ".">>
\* generic advice with a [Source: citation
RespCited ==
  <<"Y", "o", "u", " ", "s", "h", "o", "u", "l", "d", " ", "r", "e", "s",
    "t", "a", "r", "t", " ", "i", "t", ".", " ", "[", "S", "o", "u", "r",
    "c", "e", ":", " ", "a", ".", "t", "x", "t", "]">>
\* generic advice with a [From citation
RespFrom ==
  <<"[", "F", "r", "o", "m", " ", "a", ".", "t", "x", "t", "]", " ", "I",
    "t", " ", "i", "s", " ", "r", "e", "c", "o", "m", "m", "e", "n", "d",
    "e", "d", " ", "t", "o", " ", "w", "a", "i", "t", ".">>
\* a 'no information' phrase and generic advice
RespUnsure ==
  <<"I", " ", "d", "o", "n", "'", "t", " ", "k", "n", "o", "w", ",", " ",
    "b", "u", "t", " ", "u", "s", "u", "a", "l", "l", "y", " ", "i", "t",
    " ", "w", "o", "r", "k", "s", ".">>
\* a short answer
RespShort ==
  <<"O", "p", "e", "n", " ", "t", "h", "e", " ", "m", "e", "n", "u", ".">>
\* the short answer with white space around it, 53 characters in all
RespPadded ==
  <<" ", " ", "O", "p", "e", "n", " ", "t", "h", "e", " ", "m", "e", "n",
    "u", ".", " ", " ", " ", " ", " ", " ", " ", " ", " ", " ", " ", " ",
    " ", " ", " ", " ", " ", " ", " ", " ", " ", " ", " ", " ", " ", " ",
    " ", " ", " ", " ", " ", " ", " ", " ", " ", " ", "\n">>
\* an answer of 70 characters
RespLong ==
  <<"1", ".", " ", "O", "p", "e", "n", " ", "t", "h", "e", " ", "s", "e",
    "t", "t", "i", "n", "g", "s", " ", "m", "e", "n", "u", " ", "a", "n",
    "d", " ", "s", "e", "l", "e", "c", "t", " ", "t", "h", "e", " ", "R",
    "e", "s", "e", "t", " ", "o", "p", "t", "i", "o", "n", ".", " ", "[",
    "S", "o", "u", "r", "c", "e", ":", " ", "a", ".", "t", "x", "t", "]">>
\* a short answer with a 'no information' phrase
RespShortRefusal ==
  <<"C", "a", "n", "n", "o", "t", " ", "f", "i", "n", "d", " ", "i", "t",
    ".">>

\* the responses validated; FallbackSentence is the refusal the prompt mandates
Responses ==
  { <<>>, FallbackSentence, RespGeneric, RespGenericCapital, RespCited, RespFrom,
    RespUnsure, RespShort, RespPadded, RespLong, RespShortRefusal }

\* two retrieved documents
NameA ==
  <<"a", ".", "t", "x", "t">>
NameB ==
  <<"b", ".", "m", "d">>
SpanA ==
  <<"P", "r", "e", "s", "s", " ", "F", "1">>
SpanB ==
  <<"H", "o", "l", "d", " ", "F", "2", "\n", "t", "h", "e", "n", " ", "F",
    "3">>
DocA == [docName |-> NameA, text |-> SpanA, score |-> 2]
DocB == [docName |-> NameB, text |-> SpanB, score |-> 1]

DocLists == { <<>>, <<DocA>>, <<DocA, DocB>>, <<DocB, DocA>> }

\* a captured text and an earlier answer
ScreenText ==
  <<"e", "r", "r", " ", "4", "2">>
EarlierAnswer ==
  <<"R", "e", "s", "t", "a", "r", "t", ".">>

\* no capture context, one with an earlier answer, and one whose earlier
\* answer is the refusal the prompt mandates
Contexts ==
  { NoContext, Context(ScreenText, EarlierAnswer), Context(ScreenText, FallbackSentence) }

InitPrompt ==
  \E response \in Responses, relevantDocs \in DocLists, captureContext \in Contexts :
    /\ input = [response |-> response, relevantDocs |-> relevantDocs,
                captureContext |-> captureContext]
    /\ lastSearch = NoSearch
    /\ StoreEmpty
    /\ AssistantIdle
    /\ ShellIdle
\* buildSystemPrompt({ relevantDocs, captureContext }) is called
BuildPrompt ==
  /\ lastPrompt' = [called |-> TRUE,
                    prompt |-> buildSystemPrompt(input.relevantDocs, input.captureContext)]
  /\ UNCHANGED <<shellVars, storeVars, input, lastSearch, lastValidation, solveVars>>

\* validateAIResponse(response, relevantDocs) is called
Validate ==
  /\ lastValidation' = [called |-> TRUE,
                        result |-> validateAIResponse(input.response, input.relevantDocs)]
  /\ UNCHANGED <<shellVars, storeVars, input, lastSearch, lastPrompt, solveVars>>

NextPrompt == BuildPrompt \/ Validate

SpecPrompt == InitPrompt /\ [][NextPrompt]_vars


(***************************************************************************)
(* The orchestrator: initializePhase3, generateSolution and the            *)
(* capture-screenshot and chat-followup handlers.  A handler runs until    *)
(* its next await; there initializePhase3 and the other handler may run.   *)
(***************************************************************************)
MaxCalls == 2

\* the answers of generateSolution while the service is not ready
InitializingMessage ==
  <<"A", "I", " ", "m", "o", "d", "e", "l", " ", "i", "s", " ", "i", "n",
    "i", "t", "i", "a", "l", "i", "z", "i", "n", "g", ".", ".", ".", " ",
    "T", "h", "i", "s", " ", "m", "a", "y", " ", "t", "a", "k", "e", " ",
    "s", "e", "v", "e", "r", "a", "l", " ", "m", "i", "n", "u", "t", "e",
    "s", " ", "o", "n", " ", "f", "i", "r", "s", "t", " ", "l", "a", "u",
    "n", "c", "h", " ", "(", "d", "o", "w", "n", "l", "o", "a", "d", "i",
    "n", "g", " ", "2", ".", "4", "G", "B", " ", "m", "o", "d", "e", "l",
    ")", ".", " ", "P", "l", "e", "a", "s", "e", " ", "w", "a", "i", "t",
    " ", "a", "n", "d", " ", "t", "r", "y", " ", "a", "g", "a", "i", "n",
    ".">>
NotInitializedMessage ==
  <<"A", "I", " ", "s", "e", "r", "v", "i", "c", "e", " ", "n", "o", "t",
    " ", "i", "n", "i", "t", "i", "a", "l", "i", "z", "e", "d", ".", " ",
    "P", "l", "e", "a", "s", "e", " ", "r", "e", "s", "t", "a", "r", "t",
    " ", "t", "h", "e", " ", "a", "p", "p", ".">>
UnavailableHead ==
  <<"A", "I", " ", "u", "n", "a", "v", "a", "i", "l", "a", "b", "l", "e",
    ":", " ">>
UnavailableTail ==
  <<"\n", "\n", "P", "l", "e", "a", "s", "e", " ", "r", "e", "s", "t", "a",
    "r", "t", " ", "t", "h", "e", " ", "a", "p", "p", " ", "o", "r", " ",
    "c", "h", "e", "c", "k", " ", "l", "o", "g", "s", ".">>

\* the error of chat-followup while the service is not ready
ChatNotInitialized ==
  <<"A", "I", " ", "s", "e", "r", "v", "i", "c", "e", " ", "i", "s", " ",
    "n", "o", "t", " ", "i", "n", "i", "t", "i", "a", "l", "i", "z", "e",
    "d", ".", " ", "M", "o", "d", "e", "l", " ", "m", "a", "y", " ", "s",
    "t", "i", "l", "l", " ", "b", "e", " ", "l", "o", "a", "d", "i", "n",
    "g", ".">>

\* the texts that stand in for an empty completion
NoSolution ==
  <<"N", "o", " ", "s", "o", "l", "u", "t", "i", "o", "n", " ", "g", "e",
    "n", "e", "r", "a", "t", "e", "d", ".">>
NoResponse ==
  <<"N", "o", " ", "r", "e", "s", "p", "o", "n", "s", "e", " ", "g", "e",
    "n", "e", "r", "a", "t", "e", "d", ".">>

\* the answer of generateSolution when the completion throws
ErrorGenerating ==
  <<"E", "r", "r", "o", "r", " ", "g", "e", "n", "e", "r", "a", "t", "i",
    "n", "g", " ", "s", "o", "l", "u", "t", "i", "o", "n", ":", " ">>

\* what performRealOCR returns for an image without text
NoTextDetected ==
  <<"(", "N", "o", " ", "t", "e", "x", "t", " ", "d", "e", "t", "e", "c",
    "t", "e", "d", " ", "i", "n", " ", "c", "a", "p", "t", "u", "r", "e",
    "d", " ", "r", "e", "g", "i", "o", "n", ")">>

\* the messages of the errors thrown in the scenarios
NoScreenSources ==
  <<"N", "o", " ", "s", "c", "r", "e", "e", "n", " ", "s", "o", "u", "r",
    "c", "e", "s", " ", "a", "v", "a", "i", "l", "a", "b", "l", "e">>
LoadError ==
  <<"F", "a", "i", "l", "e", "d", " ", "t", "o", " ", "l", "o", "a", "d",
    " ", "m", "o", "d", "e", "l">>
OracleError ==
  <<"N", "o", " ", "s", "e", "q", "u", "e", "n", "c", "e", "s", " ", "l",
    "e", "f", "t">>
SyntaxError ==
  <<"I", "n", "v", "a", "l", "i", "d", " ", "r", "e", "g", "u", "l", "a",
    "r", " ", "e", "x", "p", "r", "e", "s", "s", "i", "o", "n">>

\* a variant of Ready that is content with a service that exists
Ready_Created == aiService # "undefined"

\* aiService && aiService.isInitialized()
Ready == aiService = "initialized"

\* generateSolution while the service is not ready
NotReadyAnswer ==
  IF aiInitError.set
  THEN UnavailableHead \o aiInitError.message \o UnavailableTail
  ELSE IF aiInitializing THEN InitializingMessage
  ELSE NotInitializedMessage

\* what became of the completion a handler asked for
NoCompletion == [kind |-> "none"]
Completed(content) == [kind |-> "text", content |-> content]
Threw == [kind |-> "threw"]

\* the results of capture-screenshot and chat-followup; completion, and for
\* chat-followup relevantDocs, record what the handler worked with
CaptureResult(text, relevantDocs, aiSolution, completion) ==
  [op |-> "capture", success |-> TRUE, text |-> text, relevantDocs |-> relevantDocs,
   answer |-> aiSolution, completion |-> completion]

ChatResult(reply, generatedTitle, relevantDocs, completion) ==
  [op |-> "chat", success |-> TRUE, generatedTitle |-> generatedTitle,
   relevantDocs |-> relevantDocs, answer |-> reply, completion |-> completion]

Failed(op, error, completion) ==
  [op |-> op, success |-> FALSE, error |-> error, completion |-> completion]

\* a variant of Answered that returns the warning in place of the answer
Answered_WarningOnly(content, placeholder, relevantDocs) ==
  LET solution == IF content = <<>> THEN placeholder ELSE content
      validation == validateAIResponse(solution, relevantDocs)
  IN IF ~validation.isValid /\ validation.warning # <<>>
     THEN validation.warning
     ELSE solution

\* const solution = response.choices[0]?.message?.content || placeholder, then
\* validateAIResponse and the warning appended after a blank line
Answered(content, placeholder, relevantDocs) ==
  LET solution == IF content = <<>> THEN placeholder ELSE content
      validation == validateAIResponse(solution, relevantDocs)
  IN IF ~validation.isValid /\ validation.warning # <<>>
     THEN solution \o <<"\n", "\n">> \o validation.warning
     ELSE solution

\* the texts OCR gives: "abd", which a stored chunk matches, "ab a", which has
\* no token to search for, and the text for an image without text
CaptureTexts == { <<"a", "b", "d">>, <<"a", "b", " ", "a">>, NoTextDetected }

\* the contents createChatCompletion resolves with (trimmed by AIService)
Completions == { <<>>, FallbackSentence, RespGeneric, RespShort, RespLong }

\* the contents the title completion resolves with
Titles == { <<>>, RespShort }

\* the captureContext of a chat without a capture, of a capture with results,
\* of a capture without results, and of stored results without capture text
NoCapture == [text |-> <<>>, aiSolution |-> <<>>, relevantDocs |-> <<>>]
CaptureContexts ==
  { NoCapture,
    [text |-> ScreenText, aiSolution |-> EarlierAnswer, relevantDocs |-> <<DocA>>],
    [text |-> ScreenText, aiSolution |-> FallbackSentence, relevantDocs |-> <<>>],
    [text |-> <<>>, aiSolution |-> <<>>, relevantDocs |-> <<DocB>>] }

\* the data of chat-followup (the chat history goes to the completion as it is)
ChatData ==
  [message : { <<"a", "b", "d">>, <<"(", "a", "b">> },
   captureContext : CaptureContexts,
   isNewChat : BOOLEAN,
   generateTitle : BOOLEAN]

\* the store the orchestrator searches: one document of three chunks
SolveLists == << <<TextOne, TextTwo, TextOne>> >>

InitSolve ==
  /\ documentChunks = StoreOf(SolveLists)
  /\ documentsMetadata = MetadataOf(SolveLists)
  /\ chunksFile = Written(StoreOf(SolveLists))
  /\ metadataFile = Written(MetadataOf(SolveLists))
  /\ storedFiles = {DocId(1)}
  /\ nextDoc = 1
  /\ upload = Idle
  /\ delete = Idle
  /\ deleted = {}
  /\ done = [op |-> "none"]
  /\ input = NoInput
  /\ lastSearch = NoSearch
  /\ AssistantIdle
  /\ ShellIdle
\* initializePhase3 is called: the flags are set, isModelAvailable is awaited
Phase3Begin ==
  /\ phase3.pc = "idle"
  /\ ~(aiInitializing \/ aiInitialized)
  /\ aiInitializing' = TRUE
  /\ aiInitError' = NoError
  /\ phase3' = [pc |-> "checkingModel"]
  /\ aiStatus' = aiStatus \cup {"initializing"}
  /\ UNCHANGED <<renderer, modelFile, procs, pendingUnlinks, startupVars, storeVars, input, lastSearch, lastPrompt, lastValidation,
                 aiService, aiInitialized, capture, chat, oracleCalls, result>>

\* isModelAvailable resolves: aiService = new AIService(modelManager), and
\* aiService.initialize() is awaited
Phase3ModelChecked(needsDownload) ==
  /\ phase3.pc = "checkingModel"
  /\ aiService' = "created"
  /\ phase3' = [pc |-> "loading", needsDownload |-> needsDownload]
  /\ aiStatus' = aiStatus \cup (IF needsDownload THEN {"downloading"} ELSE {})
  /\ UNCHANGED <<renderer, modelFile, procs, pendingUnlinks, startupVars, storeVars, input, lastSearch, lastPrompt, lastValidation,
                 aiInitializing, aiInitialized, aiInitError, capture, chat,
                 oracleCalls, result>>

\* a variant of Phase3Loaded that leaves aiInitializing set
Phase3Loaded_StillInitializing ==
  /\ phase3.pc = "loading"
  /\ aiService' = "initialized"
  /\ aiInitialized' = TRUE
  /\ phase3' = [pc |-> "ready"]
  /\ aiStatus' = aiStatus \cup {"ready"}
  /\ UNCHANGED <<renderer, modelFile, procs, pendingUnlinks, startupVars, storeVars, input, lastSearch, lastPrompt, lastValidation,
                 aiInitializing, aiInitError, capture, chat, oracleCalls, result>>

\* aiService.initialize() resolves
Phase3Loaded ==
  /\ phase3.pc = "loading"
  /\ aiService' = "initialized"
  /\ aiInitialized' = TRUE
  /\ aiInitializing' = FALSE
  /\ phase3' = [pc |-> "ready"]
  /\ aiStatus' = aiStatus \cup {"ready"}
  /\ UNCHANGED <<renderer, modelFile, procs, pendingUnlinks, startupVars, storeVars, input, lastSearch, lastPrompt, lastValidation,
                 aiInitError, capture, chat, oracleCalls, result>>

\* aiService.initialize() rejects (the download or the load failed)
Phase3Failed ==
  /\ phase3.pc = "loading"
  /\ aiInitializing' = FALSE
  /\ aiInitError' = InitError(LoadError)
  /\ phase3' = [pc |-> "failed"]
  /\ aiStatus' = aiStatus \cup {"error"}
  /\ UNCHANGED <<renderer, modelFile, procs, pendingUnlinks, startupVars, storeVars, input, lastSearch, lastPrompt, lastValidation,
                 aiService, aiInitialized, capture, chat, oracleCalls, result>>

\* capture-screenshot is invoked: the screen sources and the OCR are awaited
CaptureBegin ==
  /\ capture.pc = "idle"
  /\ capture' = [pc |-> "ocr"]
  /\ UNCHANGED <<shellVars, storeVars, input, lastSearch, lastPrompt, lastValidation,
                 aiService, aiInitializing, aiInitialized, aiInitError, phase3,
                 chat, oracleCalls, result>>

\* there is no screen source, or the OCR throws: the handler's catch returns
\* { success: false, error }
CaptureFail ==
  /\ capture.pc = "ocr"
  /\ capture' = Idle
  /\ result' = Failed("capture", NoScreenSources, NoCompletion)
  /\ UNCHANGED <<shellVars, storeVars, input, lastSearch, lastPrompt, lastValidation,
                 aiService, aiInitializing, aiInitialized, aiInitError, phase3,
                 chat, oracleCalls>>

\* the OCR gives text and searchDocuments(text, 5) throws: the handler's catch
\* returns { success: false, error }
CaptureSearchThrows(text) ==
  /\ capture.pc = "ocr"
  /\ \E call \in {MainCall(text, CaptureTopK)} :
       /\ call.threw
       /\ lastSearch' = call
  /\ capture' = Idle
  /\ result' = Failed("capture", SyntaxError, NoCompletion)
  /\ UNCHANGED <<shellVars, storeVars, input, lastPrompt, lastValidation,
                 aiService, aiInitializing, aiInitialized, aiInitError, phase3,
                 chat, oracleCalls>>

\* the OCR gives text, the search returns, and generateSolution finds the
\* service not ready: its message is returned as aiSolution
CaptureNotReady(text) ==
  /\ capture.pc = "ocr"
  /\ ~Ready
  /\ \E call \in {MainCall(text, CaptureTopK)} :
       /\ ~call.threw
       /\ lastSearch' = call
       /\ result' = CaptureResult(text, call.out, NotReadyAnswer, NoCompletion)
  /\ capture' = Idle
  /\ UNCHANGED <<shellVars, storeVars, input, lastPrompt, lastValidation,
                 aiService, aiInitializing, aiInitialized, aiInitError, phase3,
                 chat, oracleCalls>>

\* the OCR gives text, the search returns, and generateSolution builds the
\* prompt and awaits aiService.createChatCompletion
CaptureAsk(text) ==
  /\ capture.pc = "ocr"
  /\ Ready
  /\ oracleCalls < MaxCalls
  /\ \E call \in {MainCall(text, CaptureTopK)} :
       /\ ~call.threw
       /\ lastSearch' = call
       /\ capture' = [pc |-> "completing", text |-> text, relevantDocs |-> call.out,
                      systemPrompt |-> buildSystemPrompt(call.out, NoContext)]
  /\ oracleCalls' = oracleCalls + 1
  /\ UNCHANGED <<shellVars, storeVars, input, lastPrompt, lastValidation,
                 aiService, aiInitializing, aiInitialized, aiInitError, phase3,
                 chat, result>>

\* the completion resolves: the solution is validated and returned
CaptureCompletionDone(content) ==
  /\ capture.pc = "completing"
  /\ capture' = Idle
  /\ result' = CaptureResult(capture.text, capture.relevantDocs,
                             Answered(content, NoSolution, capture.relevantDocs),
                             Completed(content))
  /\ UNCHANGED <<shellVars, storeVars, input, lastSearch, lastPrompt, lastValidation,
                 aiService, aiInitializing, aiInitialized, aiInitError, phase3,
                 chat, oracleCalls>>

\* the completion throws: generateSolution's catch returns the error as text
CaptureCompletionFail ==
  /\ capture.pc = "completing"
  /\ capture' = Idle
  /\ result' = CaptureResult(capture.text, capture.relevantDocs,
                             ErrorGenerating \o OracleError, Threw)
  /\ UNCHANGED <<shellVars, storeVars, input, lastSearch, lastPrompt, lastValidation,
                 aiService, aiInitializing, aiInitialized, aiInitError, phase3,
                 chat, oracleCalls>>

\* chat-followup is invoked while the service is not ready
ChatNotReady(data) ==
  /\ chat.pc = "idle"
  /\ ~Ready
  /\ result' = Failed("chat", ChatNotInitialized, NoCompletion)
  /\ UNCHANGED <<shellVars, storeVars, input, lastSearch, lastPrompt, lastValidation,
                 aiService, aiInitializing, aiInitialized, aiInitError, phase3,
                 capture, chat, oracleCalls>>

\* a variant of ChatProceed that searches anew for every message
ChatProceed_AlwaysSearch(data, generatedTitle) ==
  LET research == TRUE
      captureContext == IF data.captureContext.text # <<>>
                        THEN Context(data.captureContext.text,
                                     data.captureContext.aiSolution)
                        ELSE NoContext
      Ask(relevantDocs) ==
        /\ oracleCalls < MaxCalls
        /\ chat' = [pc |-> "completing", data |-> data,
                    generatedTitle |-> generatedTitle, relevantDocs |-> relevantDocs,
                    systemPrompt |-> buildSystemPrompt(relevantDocs, captureContext)]
        /\ oracleCalls' = oracleCalls + 1
        /\ UNCHANGED result
  IN IF research
     THEN \E call \in {MainCall(data.message, ChatTopK)} :
            /\ lastSearch' = call
            /\ IF call.threw
               THEN /\ chat' = Idle
                    /\ result' = Failed("chat", SyntaxError, NoCompletion)
                    /\ UNCHANGED oracleCalls
               ELSE Ask(call.out)
     ELSE /\ UNCHANGED lastSearch
          /\ Ask(data.captureContext.relevantDocs)

\* chat-followup after the title: the documents are chosen (searched anew for a
\* new chat or a chat without capture, else those of the capture), the prompt
\* is built and the completion awaited; a search that throws ends the handler
ChatProceed(data, generatedTitle) ==
  LET research == data.isNewChat
                    \/ (data.captureContext.text = <<>>
                          /\ Len(data.captureContext.relevantDocs) = 0)
      captureContext == IF data.captureContext.text # <<>>
                        THEN Context(data.captureContext.text,
                                     data.captureContext.aiSolution)
                        ELSE NoContext
      Ask(relevantDocs) ==
        /\ oracleCalls < MaxCalls
        /\ chat' = [pc |-> "completing", data |-> data,
                    generatedTitle |-> generatedTitle, relevantDocs |-> relevantDocs,
                    systemPrompt |-> buildSystemPrompt(relevantDocs, captureContext)]
        /\ oracleCalls' = oracleCalls + 1
        /\ UNCHANGED result
  IN IF research
     THEN \E call \in {MainCall(data.message, ChatTopK)} :
            /\ lastSearch' = call
            /\ IF call.threw
               THEN /\ chat' = Idle
                    /\ result' = Failed("chat", SyntaxError, NoCompletion)
                    /\ UNCHANGED oracleCalls
               ELSE Ask(call.out)
     ELSE /\ UNCHANGED lastSearch
          /\ Ask(data.captureContext.relevantDocs)

\* chat-followup is invoked with generateTitle: generateChatTitle awaits a
\* completion of its own
ChatTitle(data) ==
  /\ chat.pc = "idle"
  /\ Ready
  /\ data.generateTitle
  /\ oracleCalls < MaxCalls
  /\ chat' = [pc |-> "titling", data |-> data]
  /\ oracleCalls' = oracleCalls + 1
  /\ UNCHANGED <<shellVars, storeVars, input, lastSearch, lastPrompt, lastValidation,
                 aiService, aiInitializing, aiInitialized, aiInitError, phase3,
                 capture, result>>

\* the title completion resolves: content.trim() || message.slice(0, 30)
ChatTitleDone(content) ==
  /\ chat.pc = "titling"
  /\ ChatProceed(chat.data, IF trim(content) = <<>>
                            THEN SliceTo(chat.data.message, 30)
                            ELSE trim(content))
  /\ UNCHANGED <<shellVars, storeVars, input, lastPrompt, lastValidation,
                 aiService, aiInitializing, aiInitialized, aiInitError, phase3,
                 capture>>

\* the title completion throws: generateChatTitle's catch gives the start of
\* the message
ChatTitleFail ==
  /\ chat.pc = "titling"
  /\ ChatProceed(chat.data,
                 SliceTo(chat.data.message, 30)
                   \o (IF Len(chat.data.message) > 30 THEN <<".", ".", ".">> ELSE <<>>))
  /\ UNCHANGED <<shellVars, storeVars, input, lastPrompt, lastValidation,
                 aiService, aiInitializing, aiInitialized, aiInitError, phase3,
                 capture>>

\* chat-followup is invoked without generateTitle
ChatStart(data) ==
  /\ chat.pc = "idle"
  /\ Ready
  /\ ~data.generateTitle
  /\ ChatProceed(data, <<>>)
  /\ UNCHANGED <<shellVars, storeVars, input, lastPrompt, lastValidation,
                 aiService, aiInitializing, aiInitialized, aiInitError, phase3,
                 capture>>

\* the completion resolves: the reply is validated and returned
ChatCompletionDone(content) ==
  /\ chat.pc = "completing"
  /\ chat' = Idle
  /\ result' = ChatResult(Answered(content, NoResponse, chat.relevantDocs),
                          chat.generatedTitle, chat.relevantDocs, Completed(content))
  /\ UNCHANGED <<shellVars, storeVars, input, lastSearch, lastPrompt, lastValidation,
                 aiService, aiInitializing, aiInitialized, aiInitError, phase3,
                 capture, oracleCalls>>

\* the completion throws: the handler's catch returns { success: false, error }
ChatCompletionFail ==
  /\ chat.pc = "completing"
  /\ chat' = Idle
  /\ result' = Failed("chat", OracleError, Threw)
  /\ UNCHANGED <<shellVars, storeVars, input, lastSearch, lastPrompt, lastValidation,
                 aiService, aiInitializing, aiInitialized, aiInitError, phase3,
                 capture, oracleCalls>>

NextSolve ==
  \/ Phase3Begin
  \/ \E needsDownload \in BOOLEAN : Phase3ModelChecked(needsDownload)
  \/ Phase3Loaded
  \/ Phase3Failed
  \/ CaptureBegin
  \/ CaptureFail
  \/ \E text \in CaptureTexts : CaptureSearchThrows(text)
  \/ \E text \in CaptureTexts : CaptureNotReady(text)
  \/ \E text \in CaptureTexts : CaptureAsk(text)
  \/ \E content \in Completions : CaptureCompletionDone(content)
  \/ CaptureCompletionFail
  \/ \E data \in ChatData : ChatNotReady(data)
  \/ \E data \in ChatData : ChatTitle(data)
  \/ \E content \in Titles : ChatTitleDone(content)
  \/ ChatTitleFail
  \/ \E data \in ChatData : ChatStart(data)
  \/ \E content \in Completions : ChatCompletionDone(content)
  \/ ChatCompletionFail

SpecSolve == InitSolve /\ [][NextSolve]_vars


(***************************************************************************)
(* The chat view of the renderer (MainWindow): typing, sending and the     *)
(* outcomes of the chat-followup request.  An event handler runs to its    *)
(* first await and React commits the state it set before the next event    *)
(* is handled; state set after an await is committed by a later render.    *)
(***************************************************************************)
MaxSends == 3

\* the last chat-followup request started is at work
Sending == renderer.inFlight > 0

\* onChange of the chat input: the input takes text unless it is disabled
TypeMessage ==
  /\ ~renderer.rendered
  /\ renderer.chatInput = ""
  /\ renderer' = [renderer EXCEPT !.chatInput = "text"]
  /\ UNCHANGED <<storeVars, input, lastSearch, assistantVars, modelVars, startupVars>>

\* a variant of SendMessage that does not call setIsSending(true)
SendMessage_NoFlag ==
  /\ ~renderer.rendered
  /\ renderer.chatInput # ""
  /\ Len(renderer.chatHistory) < 2 * MaxSends
  /\ renderer' = [renderer EXCEPT !.chatInput = "text",
                                  !.chatHistory = Append(@, "user"),
                                  !.inFlight = @ + 1]
  /\ UNCHANGED <<storeVars, input, lastSearch, assistantVars, modelVars, startupVars>>

\* Enter in the input, or a click on Send (neither reaches a disabled
\* control): handleSendMessage with text in the input sets isSending, appends
\* the user message, clears the input and awaits chatFollowup
SendMessage ==
  /\ ~renderer.rendered
  /\ renderer.chatInput # ""
  /\ Len(renderer.chatHistory) < 2 * MaxSends
  /\ renderer' = [renderer EXCEPT !.isSending = TRUE,
                                  !.rendered = TRUE,
                                  !.chatInput = "",
                                  !.chatHistory = Append(@, "user"),
                                  !.inFlight = @ + 1]
  /\ UNCHANGED <<storeVars, input, lastSearch, assistantVars, modelVars, startupVars>>

\* Enter in the empty input: handleSendMessage returns at its first line
SendEmpty ==
  /\ ~renderer.rendered
  /\ renderer.chatInput = ""
  /\ UNCHANGED vars

\* chatFollowup settles: the reply, or the error of a failure result, or the
\* error of a rejected request is appended; finally setIsSending(false)
RequestSettles(outcome) ==
  /\ renderer.inFlight > 0
  /\ renderer' = [renderer EXCEPT !.isSending = FALSE,
                                  !.chatHistory = Append(@, outcome),
                                  !.inFlight = @ - 1]
  /\ UNCHANGED <<storeVars, input, lastSearch, assistantVars, modelVars, startupVars>>

\* React renders the state set after the await: disabled={isSending}
Render ==
  /\ renderer.rendered # renderer.isSending
  /\ renderer' = [renderer EXCEPT !.rendered = renderer.isSending]
  /\ UNCHANGED <<storeVars, input, lastSearch, assistantVars, modelVars, startupVars>>

\* the outcomes of a request: response.success with a reply, a failure
\* result, a thrown error
Outcomes == {"reply", "failure", "thrown"}

InitChatView ==
  /\ StoreEmpty
  /\ input = NoInput
  /\ lastSearch = NoSearch
  /\ AssistantIdle
  /\ ShellIdle

NextChatView ==
  \/ TypeMessage
  \/ SendMessage
  \/ SendEmpty
  \/ \E outcome \in Outcomes : RequestSettles(outcome)
  \/ Render

SpecChatView == InitChatView /\ [][NextChatView]_vars


(***************************************************************************)
(* The model file and its users: ModelManager.isModelAvailable,            *)
(* downloadModel and ensureModel (utils/search.ts), called by              *)
(* initializePhase3 through AIService.initialize and by the                *)
(* get-model-status and download-model handlers.  The file is known by     *)
(* its size only.  A caller runs until its next await.                     *)
(***************************************************************************)
MaxPending == 2

\* the callers that reach downloadModel
Downloaders == {"init", "download-model"}

\* the message of a failed download
DownloadFailed == <<"d", "o", "w", "n", "l", "o", "a", "d">>

\* modelManager = new ModelManager() has run (main.ts:251)
HasModelManager == phase3.pc # "idle"

\* the listeners of download-complete and download-error are set (main.ts:266-294)
Listening == phase3.pc \notin {"idle", "checkingModel"}

\* the caller is at this position
ProcAt(c, pc) == procs[c].pc = pc

Proc(c, pc) == [procs EXCEPT ![c] = [pc |-> pc, download |-> procs[c].download]]

\* initializePhase3 after its isModelAvailable (main.ts:254-300): the
\* 'downloading' status, the listeners, aiService = new AIService, and
\* ensureModel's own isModelAvailable is awaited
InitChecked(needsDownload, file) ==
  /\ modelFile' = file
  /\ aiService' = "created"
  /\ phase3' = [pc |-> "ensuring", needsDownload |-> needsDownload]
  /\ aiStatus' = aiStatus \cup (IF needsDownload THEN {"downloading"} ELSE {})
  /\ UNCHANGED <<aiInitializing, aiInitialized, aiInitError, pendingUnlinks>>

\* initializePhase3: isModelAvailable finds no file or a complete file and
\* returns, or finds an incomplete file and awaits fs.unlink
InitCheckModel ==
  /\ phase3.pc = "checkingModel"
  /\ ProcAt("init", "idle")
  /\ IF modelFile = "partial"
     THEN /\ procs' = Proc("init", "unlinking")
          /\ UNCHANGED <<modelFile, aiService, phase3, aiStatus, aiInitializing,
                         aiInitialized, aiInitError, pendingUnlinks>>
     ELSE /\ InitChecked(modelFile # "complete", modelFile)
          /\ UNCHANGED procs
  /\ UNCHANGED <<storeVars, input, lastSearch, lastPrompt, lastValidation,
                 capture, chat, oracleCalls, result, renderer, startupVars>>

\* initializePhase3: the fs.unlink of isModelAvailable settles (the file is
\* gone, or the unlink failed and the error is caught); needsDownload is true
InitCheckUnlinked(unlinked) ==
  /\ phase3.pc = "checkingModel"
  /\ ProcAt("init", "unlinking")
  /\ procs' = Proc("init", "idle")
  /\ InitChecked(TRUE, IF unlinked THEN "absent" ELSE modelFile)
  /\ UNCHANGED <<storeVars, input, lastSearch, lastPrompt, lastValidation,
                 capture, chat, oracleCalls, result, renderer, startupVars>>

\* ensureModel: isModelAvailable finds a complete file (the model is loaded
\* next), no file (downloadModel is called: mkdir and fetch are awaited), or
\* an incomplete file (fs.unlink is awaited)
InitEnsure ==
  /\ phase3.pc = "ensuring"
  /\ ProcAt("init", "idle")
  /\ CASE modelFile = "complete" ->
            /\ phase3' = [pc |-> "loading", model |-> "found"]
            /\ UNCHANGED procs
       [] modelFile = "absent" ->
            /\ procs' = Proc("init", "fetching")
            /\ UNCHANGED phase3
       [] modelFile = "partial" ->
            /\ procs' = Proc("init", "unlinking")
            /\ UNCHANGED phase3
  /\ UNCHANGED <<storeVars, input, lastSearch, lastPrompt, lastValidation,
                 aiService, aiInitializing, aiInitialized, aiInitError,
                 capture, chat, oracleCalls, result, renderer, startupVars,
                 modelFile, pendingUnlinks, aiStatus>>

\* ensureModel: the fs.unlink of isModelAvailable settles, downloadModel is
\* called
InitEnsureUnlinked(unlinked) ==
  /\ phase3.pc = "ensuring"
  /\ ProcAt("init", "unlinking")
  /\ procs' = Proc("init", "fetching")
  /\ modelFile' = IF unlinked THEN "absent" ELSE modelFile
  /\ UNCHANGED <<storeVars, input, lastSearch, lastPrompt, lastValidation,
                 solveVars, renderer, startupVars, pendingUnlinks, aiStatus>>

\* get-model-status: isModelAvailable returns at once for a missing or a
\* complete file, and awaits fs.unlink for an incomplete one
StatusCall ==
  /\ HasModelManager
  /\ ProcAt("get-model-status", "idle")
  /\ procs' = IF modelFile = "partial"
              THEN Proc("get-model-status", "unlinking") ELSE procs
  /\ UNCHANGED <<storeVars, input, lastSearch, assistantVars, renderer,
                 startupVars, modelFile, pendingUnlinks, aiStatus>>

\* get-model-status: the fs.unlink settles, { downloaded: false } is returned
StatusUnlinked(unlinked) ==
  /\ ProcAt("get-model-status", "unlinking")
  /\ procs' = Proc("get-model-status", "idle")
  /\ modelFile' = IF unlinked THEN "absent" ELSE modelFile
  /\ UNCHANGED <<storeVars, input, lastSearch, assistantVars, renderer,
                 startupVars, pendingUnlinks, aiStatus>>

\* download-model: isModelAvailable finds a complete file ('Model already
\* downloaded'), no file (downloadModel is called) or an incomplete file
\* (fs.unlink is awaited)
ManualCall ==
  /\ HasModelManager
  /\ ProcAt("download-model", "idle")
  /\ procs' = CASE modelFile = "complete" ->
                     [procs EXCEPT !["download-model"] = Resting]
                [] modelFile = "absent" ->
                     [procs EXCEPT !["download-model"] =
                        [pc |-> "fetching", download |-> "none"]]
                [] modelFile = "partial" ->
                     [procs EXCEPT !["download-model"] =
                        [pc |-> "unlinking", download |-> "none"]]
  /\ UNCHANGED <<storeVars, input, lastSearch, assistantVars, renderer,
                 startupVars, modelFile, pendingUnlinks, aiStatus>>

\* download-model: the fs.unlink settles, downloadModel is called
ManualUnlinked(unlinked) ==
  /\ ProcAt("download-model", "unlinking")
  /\ procs' = Proc("download-model", "fetching")
  /\ modelFile' = IF unlinked THEN "absent" ELSE modelFile
  /\ UNCHANGED <<storeVars, input, lastSearch, assistantVars, renderer,
                 startupVars, pendingUnlinks, aiStatus>>

\* downloadModel: the response is ok, createWriteStream(modelPath) opens the
\* file empty, and the chunks are written as they arrive
DownloadOpen(c) ==
  /\ ProcAt(c, "fetching")
  /\ procs' = Proc(c, "writing")
  /\ modelFile' = "partial"
  /\ UNCHANGED <<storeVars, input, lastSearch, assistantVars, renderer,
                 startupVars, pendingUnlinks, aiStatus>>

\* the file at the model path has grown to the expected size
DownloadProgress ==
  /\ \E c \in Downloaders : ProcAt(c, "writing")
  /\ modelFile = "partial"
  /\ modelFile' = "complete"
  /\ UNCHANGED <<storeVars, input, lastSearch, assistantVars, renderer,
                 startupVars, procs, pendingUnlinks, aiStatus>>

\* downloadModel settles for caller c.  emits: 'download-complete' or
\* 'download-error' is emitted, and heard when the listeners of
\* initializePhase3 are set; unlinks: fs.unlink(modelPath) is called and not
\* awaited.  A rejection in initializePhase3 reaches its catch; a resolution
\* there goes on to load the model.
DownloadSettles(c, outcome, emits, unlinks) ==
  LET heard == emits /\ Listening
      rejected == outcome = "rejected"
  IN /\ procs' = [procs EXCEPT ![c] = [pc |-> "idle", download |-> outcome]]
     /\ pendingUnlinks' = IF unlinks THEN pendingUnlinks + 1 ELSE pendingUnlinks
     /\ aiStatus' = aiStatus
                      \cup (IF heard /\ ~rejected THEN {"loading"} ELSE {})
                      \cup (IF rejected /\ (heard \/ c = "init") THEN {"error"} ELSE {})
     /\ aiInitError' = IF rejected /\ (heard \/ c = "init")
                       THEN InitError(DownloadFailed) ELSE aiInitError
     /\ aiInitializing' = IF rejected /\ c = "init" THEN FALSE ELSE aiInitializing
     /\ phase3' = IF c # "init" THEN phase3
                  ELSE IF rejected THEN [pc |-> "failed"]
                  ELSE [pc |-> "loading", model |-> "downloaded"]
     /\ UNCHANGED <<storeVars, input, lastSearch, lastPrompt, lastValidation,
                    aiService, aiInitialized, capture, chat, oracleCalls, result,
                    renderer, startupVars, modelFile>>

\* downloadModel: fetch fails or the response is not ok; the catch emits
\* 'download-error' and rethrows
DownloadHttpError(c) ==
  /\ ProcAt(c, "fetching")
  /\ DownloadSettles(c, "rejected", TRUE, FALSE)

\* downloadModel: reading the response body throws: fileStream.destroy() and
\* reject(err)
DownloadReadError(c) ==
  /\ ProcAt(c, "writing")
  /\ DownloadSettles(c, "rejected", FALSE, FALSE)

\* downloadModel: the write stream emits 'error': fs.unlink is called,
\* 'download-error' is emitted, reject(err)
DownloadWriteError(c) ==
  /\ ProcAt(c, "writing")
  /\ pendingUnlinks < MaxPending
  /\ DownloadSettles(c, "rejected", TRUE, TRUE)

\* downloadModel: the write stream emits 'finish' and the file is as large as
\* expected: 'download-complete', resolve()
DownloadFinish(c) ==
  /\ ProcAt(c, "writing")
  /\ modelFile = "complete"
  /\ DownloadSettles(c, "resolved", TRUE, FALSE)

\* downloadModel: the write stream emits 'finish' and the file is too small:
\* fs.unlink is called, 'download-error' is emitted, reject(error)
DownloadIncomplete(c) ==
  /\ ProcAt(c, "writing")
  /\ modelFile = "partial"
  /\ pendingUnlinks < MaxPending
  /\ DownloadSettles(c, "rejected", TRUE, TRUE)

\* downloadModel: the write stream emits 'finish' and there is no file at the
\* model path: statSync throws inside the listener and the promise of
\* downloadModel never settles
DownloadFinishNoFile(c) ==
  /\ ProcAt(c, "writing")
  /\ modelFile = "absent"
  /\ procs' = Proc(c, "hung")
  /\ UNCHANGED <<storeVars, input, lastSearch, assistantVars, renderer,
                 startupVars, modelFile, pendingUnlinks, aiStatus>>

\* an fs.unlink(modelPath) that downloadModel did not await runs (an error is
\* swallowed by its catch)
PendingUnlinkRuns(unlinked) ==
  /\ pendingUnlinks > 0
  /\ pendingUnlinks' = pendingUnlinks - 1
  /\ modelFile' = IF unlinked THEN "absent" ELSE modelFile
  /\ UNCHANGED <<storeVars, input, lastSearch, assistantVars, renderer,
                 startupVars, procs, aiStatus>>

\* initializePhase3 is called while a run is in progress or after one has
\* succeeded: it returns aiInitialized and starts nothing
Phase3Skip ==
  /\ aiInitializing \/ aiInitialized
  /\ UNCHANGED vars

\* the file left at the model path by earlier runs of the app
InitModel ==
  /\ StoreEmpty
  /\ input = NoInput
  /\ lastSearch = NoSearch
  /\ AssistantIdle
  /\ RendererIdle
  /\ StartupIdle
  /\ modelFile \in {"absent", "partial", "complete"}
  /\ procs = [c \in Callers |-> Resting]
  /\ pendingUnlinks = 0
  /\ aiStatus = {}

NextModel ==
  \/ Phase3Begin
  \/ Phase3Skip
  \/ InitCheckModel
  \/ \E unlinked \in BOOLEAN : InitCheckUnlinked(unlinked)
  \/ InitEnsure
  \/ \E unlinked \in BOOLEAN : InitEnsureUnlinked(unlinked)
  \/ Phase3Loaded
  \/ Phase3Failed
  \/ StatusCall
  \/ \E unlinked \in BOOLEAN : StatusUnlinked(unlinked)
  \/ ManualCall
  \/ \E unlinked \in BOOLEAN : ManualUnlinked(unlinked)
  \/ \E c \in Downloaders : DownloadOpen(c)
  \/ DownloadProgress
  \/ \E c \in Downloaders : DownloadHttpError(c)
  \/ \E c \in Downloaders : DownloadReadError(c)
  \/ \E c \in Downloaders : DownloadWriteError(c)
  \/ \E c \in Downloaders : DownloadFinish(c)
  \/ \E c \in Downloaders : DownloadIncomplete(c)
  \/ \E c \in Downloaders : DownloadFinishNoFile(c)
  \/ \E unlinked \in BOOLEAN : PendingUnlinkRuns(unlinked)

SpecModel == InitModel /\ [][NextModel]_vars


(***************************************************************************)
(* Startup: the app.whenReady callback of main.ts with loadSettings,       *)
(* registerShortcutWithFallbacks and saveSettings, and the start of        *)
(* initializePhase2 and initializePhase3.                                  *)
(***************************************************************************)
\* FALLBACK_SHORTCUTS
FallbackShortcuts ==
  <<"CommandOrControl+Alt+S", "CommandOrControl+Shift+X", "Alt+Shift+S",
    "CommandOrControl+Shift+C">>

\* a shortcut the user has chosen in the settings
CustomShortcut == "F9"

Shortcuts == {FallbackShortcuts[i] : i \in 1..Len(FallbackShortcuts)} \cup {CustomShortcut}

\* settings.json holding a shortcut, and settings.json that does not parse
SettingsWith(shortcut) == [exists |-> TRUE, valid |-> TRUE, captureShortcut |-> shortcut]
CorruptFile == [exists |-> TRUE, valid |-> FALSE]

\* loadSettings: the shortcut of the file when it exists, is read and parses,
\* else DEFAULT_SETTINGS
loadSettings(readOk) ==
  IF settingsFile.exists /\ readOk /\ settingsFile.valid
  THEN settingsFile.captureShortcut
  ELSE DefaultShortcut

\* registerCaptureShortcut: unregisterAll, then register (false when the
\* system refuses or register throws)
registerCaptureShortcut(shortcut) == shortcut \in available

\* the loop over FALLBACK_SHORTCUTS from position i
RECURSIVE TryFallbacks(_, _)
TryFallbacks(preferredShortcut, i) ==
  IF i > Len(FallbackShortcuts)
  THEN [success |-> FALSE, shortcut |-> preferredShortcut]
  ELSE IF FallbackShortcuts[i] # preferredShortcut
            /\ registerCaptureShortcut(FallbackShortcuts[i])
       THEN [success |-> TRUE, shortcut |-> FallbackShortcuts[i]]
       ELSE TryFallbacks(preferredShortcut, i + 1)

\* registerShortcutWithFallbacks: the preferred shortcut, then the fallbacks
registerShortcutWithFallbacks(preferredShortcut) ==
  IF registerCaptureShortcut(preferredShortcut)
  THEN [success |-> TRUE, shortcut |-> preferredShortcut]
  ELSE TryFallbacks(preferredShortcut, 1)

\* ocrReady = true; initializePhase2() runs to its first mkdir;
\* initializePhase3() runs to its isModelAvailable
StartPhases ==
  /\ phase2' = [pc |-> "makingDirs"]
  /\ aiInitializing' = TRUE
  /\ aiInitError' = NoError
  /\ phase3' = [pc |-> "checkingModel"]
  /\ aiStatus' = aiStatus \cup {"initializing"}

\* app.whenReady fires: the windows are created, loadSettings is awaited
WhenReady ==
  /\ startup.pc = "idle"
  /\ startup' = [pc |-> "loadingSettings"]
  /\ UNCHANGED <<storeVars, input, lastSearch, assistantVars, renderer, modelVars,
                 currentSettings, settingsFile, registered, available, dataDir,
                 phase2>>

\* loadSettings resolves and the shortcut is registered.  When a fallback
\* was registered the settings take it and saveSettings is awaited; else the
\* phases are started.
SettingsLoaded(readOk) ==
  LET preferred == loadSettings(readOk)
      shortcutResult == registerShortcutWithFallbacks(preferred)
      fallbackUsed == shortcutResult.success /\ shortcutResult.shortcut # preferred
  IN /\ startup.pc = "loadingSettings"
     /\ registered' = IF shortcutResult.success THEN {shortcutResult.shortcut} ELSE {}
     /\ currentSettings' = IF fallbackUsed THEN shortcutResult.shortcut ELSE preferred
     /\ IF fallbackUsed
        THEN /\ startup' = [pc |-> "savingSettings", preferred |-> preferred,
                            shortcutResult |-> shortcutResult]
             /\ UNCHANGED <<phase2, aiInitializing, aiInitError, phase3, aiStatus>>
        ELSE /\ startup' = [pc |-> "done", preferred |-> preferred,
                            shortcutResult |-> shortcutResult]
             /\ StartPhases
     /\ UNCHANGED <<storeVars, input, lastSearch, lastPrompt, lastValidation,
                    aiService, aiInitialized, capture, chat, oracleCalls, result,
                    renderer, modelFile, procs, pendingUnlinks,
                    settingsFile, available, dataDir>>

\* the write of saveSettings succeeds (the directory of the file exists);
\* the phases are started
SettingsSaved ==
  /\ startup.pc = "savingSettings"
  /\ dataDir
  /\ settingsFile' = SettingsWith(startup.shortcutResult.shortcut)
  /\ startup' = [startup EXCEPT !.pc = "done"]
  /\ StartPhases
  /\ UNCHANGED <<storeVars, input, lastSearch, lastPrompt, lastValidation,
                 aiService, aiInitialized, capture, chat, oracleCalls, result,
                 renderer, modelFile, procs, pendingUnlinks,
                 currentSettings, registered, available, dataDir>>

\* the write of saveSettings rejects (always when the directory is missing):
\* the whenReady callback rejects and runs no further
SettingsSaveFailed ==
  /\ startup.pc = "savingSettings"
  /\ startup' = [startup EXCEPT !.pc = "rejected"]
  /\ UNCHANGED <<storeVars, input, lastSearch, assistantVars, renderer, modelVars,
                 currentSettings, settingsFile, registered, available, dataDir,
                 phase2>>

\* initializePhase2: the directories are made, the two files are read
Phase2DirsMade ==
  /\ phase2.pc = "makingDirs"
  /\ dataDir' = TRUE
  /\ phase2' = [pc |-> "loading"]
  /\ UNCHANGED <<storeVars, input, lastSearch, assistantVars, renderer, modelVars,
                 startup, currentSettings, settingsFile, registered, available>>

\* initializePhase2: a mkdir, a read or JSON.parse throws; the catch logs it
Phase2Failed ==
  /\ phase2.pc \in {"makingDirs", "loading"}
  /\ phase2' = [pc |-> "failed"]
  /\ UNCHANGED <<storeVars, input, lastSearch, assistantVars, renderer, modelVars,
                 startup, currentSettings, settingsFile, registered, available,
                 dataDir>>

\* initializePhase2: both files are read and parsed into the Maps
Phase2Loaded ==
  /\ phase2.pc = "loading"
  /\ metadataFile.intact /\ chunksFile.intact
  /\ documentsMetadata' = metadataFile.data
  /\ documentChunks' = chunksFile.data
  /\ phase2' = [pc |-> "loaded"]
  /\ UNCHANGED <<chunksFile, metadataFile, storedFiles, nextDoc, upload, delete,
                 deleted, done, input, lastSearch, assistantVars, renderer,
                 modelVars, startup, currentSettings, settingsFile, registered,
                 available, dataDir>>

\* the app is launched: the data directory exists or not (first launch), the
\* settings file is missing, corrupt or holds a shortcut, and the system lets
\* some of the shortcuts be registered
InitStartup ==
  /\ documentChunks = <<>>
  /\ documentsMetadata = <<>>
  /\ dataDir \in BOOLEAN
  /\ chunksFile = Written(IF dataDir THEN StoreOf(SolveLists) ELSE <<>>)
  /\ metadataFile = Written(IF dataDir THEN MetadataOf(SolveLists) ELSE <<>>)
  /\ storedFiles = IF dataDir THEN {DocId(1)} ELSE {}
  /\ nextDoc = 0
  /\ upload = Idle
  /\ delete = Idle
  /\ deleted = {}
  /\ done = [op |-> "none"]
  /\ input = NoInput
  /\ lastSearch = NoSearch
  /\ AssistantIdle
  /\ RendererIdle
  /\ ModelIdle
  /\ startup = Idle
  /\ currentSettings = DefaultShortcut
  /\ settingsFile \in IF dataDir
                      THEN {NoFile, CorruptFile} \cup {SettingsWith(s) : s \in Shortcuts}
                      ELSE {NoFile}
  /\ registered = {}
  /\ available \in SUBSET Shortcuts
  /\ phase2 = Idle

NextStartup ==
  \/ WhenReady
  \/ \E readOk \in BOOLEAN : SettingsLoaded(readOk)
  \/ SettingsSaved
  \/ SettingsSaveFailed
  \/ Phase2DirsMade
  \/ Phase2Failed
  \/ Phase2Loaded

SpecStartup == InitStartup /\ [][NextStartup]_vars

\* every step of the startup that can be taken is taken in the end
SpecStartupFair == SpecStartup /\ WF_vars(NextStartup)


(***************************************************************************)
(* Properties.                                                             *)
(***************************************************************************)
\* the last call was searchDocuments of main.ts and it returned an array
MainReturned == lastSearch.impl = "main" /\ ~lastSearch.threw

\* the last call was one of the two search functions and it returned
Returned == lastSearch.impl # "none" /\ ~lastSearch.threw

\* the texts of the chunks max(0, i-1) .. min(n-1, i+1) of a document, in index
\* order, joined by a newline
NeighborText(docChunks, i) ==
  LET lo == Max(0, i - 1)
      hi == Min(Len(docChunks) - 1, i + 1)
  IN JoinLines([j \in 1..(hi - lo + 1) |-> docChunks[lo + j].text])

\* C1: for every seed match with chunkIndex i the returned array holds a result
\* of the seed's document whose text is exactly the texts of the chunks
\* max(0,i-1) .. min(n-1,i+1) joined by a newline, and every returned text is
\* such a text of some seed.
C1_NeighborExpansion ==
  MainReturned =>
    /\ \A s \in 1..Len(lastSearch.selected) :
         LET m == lastSearch.selected[s]
             docChunks == Get(documentChunks, m.docId).chunks
         IN \E k \in 1..Len(lastSearch.out) :
              /\ lastSearch.out[k].docName = m.docName
              /\ lastSearch.out[k].text = NeighborText(docChunks, m.chunkIndex)
    /\ \A k \in 1..Len(lastSearch.out) :
         \E s \in 1..Len(lastSearch.selected) :
           LET m == lastSearch.selected[s]
           IN lastSearch.out[k].text =
                NeighborText(Get(documentChunks, m.docId).chunks, m.chunkIndex)

\* C1 witness: a document of three chunks whose middle chunk alone matches, and
\* the one result is the three texts joined by newlines
C1_Witness ==
  /\ MainReturned
  /\ Len(lastSearch.out) = 1
  /\ \E i \in 1..Len(documentChunks) :
       LET c == documentChunks[i].chunks
           hits == MatchesOfDoc(documentChunks[i], QueryWords(lastSearch.query))
       IN /\ Len(c) = 3
          /\ Len(hits) = 1
          /\ hits[1].chunkIndex = 1
          /\ lastSearch.matched = {documentChunks[i].docId}
          /\ lastSearch.out[1].text =
               c[1].text \o <<"\n">> \o c[2].text \o <<"\n">> \o c[3].text

\* C2: a returned array is never longer than topK, for both search functions.
C2_AtMostTopK == Returned => Len(lastSearch.out) <= lastSearch.topK

\* C2 witness: more chunks match than topK allows and topK results come back
C2_Witness ==
  /\ MainReturned
  /\ lastSearch.topK > 0
  /\ Len(matchingChunks(QueryWords(lastSearch.query))) > lastSearch.topK
  /\ Len(lastSearch.out) = lastSearch.topK

\* C4: in a returned array the scores never increase from one result to the
\* next, for both search functions.
C4_ScoresNonIncreasing ==
  Returned =>
    \A i, j \in 1..Len(lastSearch.out) :
      i < j => lastSearch.out[i].score >= lastSearch.out[j].score

\* C4 witness: the store holds a lower-scoring match before a higher-scoring
\* one, and the results come back with the higher score first
C4_Witness ==
  /\ Returned
  /\ Len(lastSearch.out) >= 2
  /\ lastSearch.out[1].score > lastSearch.out[2].score
  /\ LET mc == matchingChunks(QueryWords(lastSearch.query))
     IN Len(mc) >= 2 /\ mc[1].score < mc[2].score


\* C5: the seeds are the first min(topK, matchCount) matched chunks in score
\* order: each seed is a matched chunk, no seed is taken twice, and every
\* matched chunk that scores strictly higher than a seed is a seed itself; with
\* topK = 1 and a match, exactly one result comes back, and it carries the
\* highest score and the name of a document holding a chunk of that score.
C5_SeedsAreTopScoring ==
  MainReturned =>
    LET mc == matchingChunks(QueryWords(lastSearch.query))
        sel == lastSearch.selected
    IN /\ Len(sel) = Min(lastSearch.topK, Len(mc))
       /\ \A s \in 1..Len(sel) : \E i \in 1..Len(mc) : mc[i] = sel[s]
       /\ \A s, t \in 1..Len(sel) : s < t =>
            sel[s] # sel[t] /\ sel[s].score >= sel[t].score
       /\ \A s \in 1..Len(sel) : \A i \in 1..Len(mc) :
            mc[i].score > sel[s].score => \E t \in 1..Len(sel) : sel[t] = mc[i]
       /\ (lastSearch.topK = 1 /\ Len(mc) >= 1) =>
            /\ Len(lastSearch.out) = 1
            /\ \A i \in 1..Len(mc) : lastSearch.out[1].score >= mc[i].score
            /\ \E i \in 1..Len(mc) : /\ mc[i].score = lastSearch.out[1].score
                                     /\ mc[i].docName = lastSearch.out[1].docName

\* C5 witness: topK = 1, two documents match with different scores, the lower
\* one first in the store, and the one result is the second document's
C5_Witness ==
  /\ MainReturned
  /\ lastSearch.topK = 1
  /\ LET mc == matchingChunks(QueryWords(lastSearch.query))
     IN /\ Len(mc) = 2
        /\ mc[1].docId # mc[2].docId
        /\ mc[1].score < mc[2].score
        /\ Len(lastSearch.out) = 1
        /\ lastSearch.out[1].docName = mc[2].docName
        /\ lastSearch.out[1].score = mc[2].score

\* the range of chunk indices a seed expands to, with its document
RangeOf(m) ==
  <<m.docId, Max(0, m.chunkIndex - 1),
    Min(Len(Get(documentChunks, m.docId).chunks) - 1, m.chunkIndex + 1)>>

\* C6: the returned array holds exactly one result for each range
\* (document, startIndex, endIndex) the seeds expand to, and that result
\* carries the score of the first seed, in score order, that expands to the
\* range, which is the highest score among the seeds of the range.
C6_OneResultPerRange ==
  MainReturned =>
    LET sel == lastSearch.selected
        ranges == {RangeOf(sel[s]) : s \in 1..Len(sel)}
    IN /\ Len(lastSearch.out) = Cardinality(ranges)
       /\ \A r \in ranges :
            LET of == {s \in 1..Len(sel) : RangeOf(sel[s]) = r}
                first == CHOOSE s \in of : \A t \in of : s <= t
            IN /\ \A t \in of : sel[first].score >= sel[t].score
               /\ \E k \in 1..Len(lastSearch.out) :
                    /\ lastSearch.out[k].score = sel[first].score
                    /\ lastSearch.out[k].docName = sel[first].docName
                    /\ lastSearch.out[k].text =
                         NeighborText(Get(documentChunks, sel[first].docId).chunks,
                                      sel[first].chunkIndex)

\* C6 witness: two seeds of different scores expand to one range, and the one
\* result carries the higher score
C6_Witness ==
  /\ MainReturned
  /\ Len(lastSearch.selected) = 2
  /\ RangeOf(lastSearch.selected[1]) = RangeOf(lastSearch.selected[2])
  /\ lastSearch.selected[1].score > lastSearch.selected[2].score
  /\ Len(lastSearch.out) = 1
  /\ lastSearch.out[1].score = lastSearch.selected[1].score

\* no three characters in a row are free of white space: the query is empty,
\* blank, or made of tokens of length <= 2
OnlyShortTokens(q) ==
  \A i \in 1..(Len(q) - 2) : IsSpace(q[i]) \/ IsSpace(q[i+1]) \/ IsSpace(q[i+2])

\* C7: for a query that is empty, blank or made only of tokens of length <= 2,
\* both search functions return the empty array, whatever the store holds.
C7_ShortQueriesReturnNothing ==
  (lastSearch.impl # "none" /\ OnlyShortTokens(lastSearch.query)) =>
    (~lastSearch.threw /\ lastSearch.out = <<>>)

\* C7 witness: a query of short tokens, one of which begins a word of a stored
\* chunk, returns nothing
C7_Witness ==
  /\ MainReturned
  /\ OnlyShortTokens(lastSearch.query)
  /\ lastSearch.out = <<>>
  /\ matchingChunks(SelectSeq(split(toLowerCase(lastSearch.query)),
                              LAMBDA w : Len(w) > 0)) # <<>>


\* a word of the text, a maximal run of word characters, starts at position i
\* and begins with the token, character for character
WordBeginsWith(text, token, i) ==
  /\ IsWordChar(text[i])
  /\ i = 1 \/ ~IsWordChar(text[i-1])
  /\ i + Len(token) - 1 <= Len(text)
  /\ \A k \in 1..Len(token) : text[i + k - 1] = token[k]

RECURSIVE PrefixScoreFrom(_, _, _)
\* the sum over the tokens of the number of words that begin with the token
PrefixScoreFrom(text, tokens, k) ==
  IF k > Len(tokens) THEN 0
  ELSE Cardinality({i \in 1..Len(text) : WordBeginsWith(text, tokens[k], i)})
       + PrefixScoreFrom(text, tokens, k + 1)

PrefixScore(text, tokens) == PrefixScoreFrom(toLowerCase(text), tokens, 1)

\* C3, as claimed: in a search that returns, the score of a chunk is the
\* number of its words that begin with a query token of length > 2, summed over
\* the tokens: every seed carries that score, and a chunk with such a word is
\* among the matched chunks.
C3_ScoreCountsWordPrefixes ==
  MainReturned =>
    LET tokens == QueryWords(lastSearch.query)
    IN /\ \A s \in 1..Len(lastSearch.selected) :
            lastSearch.selected[s].score =
              PrefixScore(lastSearch.selected[s].text, tokens)
       /\ \A i \in 1..Len(documentChunks) :
            \A j \in 1..Len(documentChunks[i].chunks) :
              PrefixScore(documentChunks[i].chunks[j].text, tokens) > 0
                => documentChunks[i].docId \in lastSearch.matched

\* C8, as claimed: no call of a search function throws.
C8_SearchNeverThrows == lastSearch.impl # "none" => ~lastSearch.threw


\* the place of a matched chunk in the iteration of the store: the position of
\* its document in the Map, then its index
DocPosition(docId) == CHOOSE i \in 1..Len(documentChunks) : documentChunks[i].docId = docId

StoreOrder(m1, m2) ==
  \/ DocPosition(m1.docId) < DocPosition(m2.docId)
  \/ DocPosition(m1.docId) = DocPosition(m2.docId) /\ m1.chunkIndex < m2.chunkIndex

\* the Map key of the range a seed expands to
KeyOfSeed(m) == ExpansionKey(RangeOf(m)[1], RangeOf(m)[2], RangeOf(m)[3])

\* the first seed of the last call, in score order, that expands to the range
\* of a Map key
FirstSeedOf(key) ==
  CHOOSE s \in 1..Len(lastSearch.selected) :
    /\ KeyOfSeed(lastSearch.selected[s]) = key
    /\ \A t \in 1..(s - 1) : KeyOfSeed(lastSearch.selected[t]) # key

\* the order of the array the last call returned is fixed by the store: seeds
\* of equal score are in store order, and the results are the expanded ranges
\* in the order of their first seeds
DeterministicOrder ==
  /\ \A s, t \in 1..Len(lastSearch.selected) :
       (s < t /\ lastSearch.selected[s].score = lastSearch.selected[t].score)
         => StoreOrder(lastSearch.selected[s], lastSearch.selected[t])
  /\ lastSearch.out = Values(lastSearch.expanded)
  /\ \A k, l \in 1..Len(lastSearch.expanded) :
       k < l => FirstSeedOf(lastSearch.expanded[k].key)
                  < FirstSeedOf(lastSearch.expanded[l].key)

\* C9: a search call changes neither documentChunks nor documentsMetadata; a
\* call with the arguments of the call before it, on the store the call before
\* it saw, ends the same way with the same array; and the order of the array is
\* fixed by the store (equal scores in store order).  The store is the one of
\* the previous call in every step of SpecSearch, where nothing modifies it.
C9_SearchReadOnlyDeterministic ==
  [][ /\ lastSearch' # lastSearch =>
           /\ documentChunks' = documentChunks
           /\ documentsMetadata' = documentsMetadata
           /\ (lastSearch'.impl = "main" /\ ~lastSearch'.threw)
                => DeterministicOrder'
      /\ ( /\ lastSearch.impl # "none"
           /\ lastSearch'.impl = lastSearch.impl
           /\ lastSearch'.query = lastSearch.query
           /\ lastSearch'.topK = lastSearch.topK
           /\ documentChunks' = documentChunks )
           => /\ lastSearch'.threw = lastSearch.threw
              /\ lastSearch'.out = lastSearch.out ]_vars

\* C9 witness: two chunks of two documents score the same, both are seeds, and
\* two results of equal score come back
C9_Witness ==
  /\ MainReturned
  /\ Len(lastSearch.selected) >= 2
  /\ lastSearch.selected[1].score = lastSearch.selected[2].score
  /\ lastSearch.selected[1].docId # lastSearch.selected[2].docId
  /\ Len(lastSearch.out) >= 2
  /\ lastSearch.out[1].score = lastSearch.out[2].score
  /\ lastSearch.out[1].docName # lastSearch.out[2].docName

\* C10: a search made after delete-document has resolved for a document matches
\* no chunk of that document, takes no seed from it and returns no range of it;
\* and a search that matches no chunk returns the empty array.
C10_DeletedNeverReturned ==
  MainReturned =>
    /\ \A d \in lastSearch.deleted :
         /\ d.docId \notin lastSearch.matched
         /\ \A s \in 1..Len(lastSearch.selected) :
              lastSearch.selected[s].docId # d.docId
         /\ \A e \in 1..Len(lastSearch.expanded) :
              \A lo, hi \in 0..MaxChunks :
                lastSearch.expanded[e].key # ExpansionKey(d.docId, lo, hi)
    /\ lastSearch.matched = {} => lastSearch.out = <<>>

\* C10 witness: the query matches a chunk of a document that delete-document
\* has removed, and the search made after the delete returns nothing
C10_Witness ==
  /\ MainReturned
  /\ lastSearch.out = <<>>
  /\ \E d \in lastSearch.deleted :
       MatchesOfDoc([docId |-> d.docId, chunks |-> d.chunks],
                    QueryWords(lastSearch.query)) # <<>>


\* delete-document settles in this step: it resolves or rethrows
DeleteReturns == delete.pc # "idle" /\ delete'.pc = "idle"

\* upload-document returns its result in this step (a cancelled dialog aside)
UploadReturns == upload.pc # "idle" /\ upload'.pc = "idle"

\* C11, as claimed: when delete-document settles for a document, resolved or
\* rejected, the document's metadata and its chunks are both still in the store
\* or both removed.
C11_DeleteAtomic ==
  [][DeleteReturns =>
       (Has(documentsMetadata', delete.docId) <=> Has(documentChunks', delete.docId))]_vars

\* C12, as claimed: after upload-document has returned success=false for a
\* document id, neither documentChunks nor documentsMetadata holds that id.
C12_FailedUploadStoresNothing ==
  (done.op = "upload" /\ ~done.ok /\ done.docId # "") =>
    /\ ~Has(documentChunks, done.docId)
    /\ ~Has(documentsMetadata, done.docId)

\* the texts of an entry of documentChunks, in the entry's order
TextsOf(entry) == [j \in 1..Len(entry.chunks) |-> entry.chunks[j].text]

C14_PersistedEqualsMemoryOnReturn ==
  [][(UploadReturns \/ DeleteReturns) =>
       /\ chunksFile' = Written(documentChunks')
       /\ metadataFile' = Written(documentsMetadata')]_vars

\* the piece stands in the string s at position i
At(s, i, piece) ==
  /\ i >= 1
  /\ i + Len(piece) - 1 <= Len(s)
  /\ SubSeq(s, i, i + Len(piece) - 1) = piece

\* the string s ends with the piece
EndsWith(s, piece) == At(s, Len(s) - Len(piece) + 1, piece)

\* the length of the capture-context block of the prompt built for the input
ContextLength ==
  IF input.captureContext.given
  THEN Len(ContextHead) + Len(input.captureContext.text) + Len(ContextMiddle)
         + Len(input.captureContext.aiSolution) + Len(ContextEnd)
  ELSE 0

\* the line of the k-th retrieved document: [<docName>]: <text>
ResultLine(k) ==
  <<"[">> \o input.relevantDocs[k].docName \o <<"]", ":", " ">>
    \o input.relevantDocs[k].text

\* where the line of the k-th document begins in a documentation block that
\* begins at position t: after the heading and the earlier lines, each
\* followed by a blank line
RECURSIVE ResultLineStart(_, _)
ResultLineStart(t, k) ==
  IF k = 1 THEN t + Len(DocsHead)
  ELSE ResultLineStart(t, k - 1) + Len(ResultLine(k - 1)) + 2

RefusalPhrases ==
  { <<"c", "a", "n", "n", "o", "t", " ", "f", "i", "n", "d">>,
    <<"c", "o", "u", "l", "d", " ", "n", "o", "t", " ", "f", "i", "n", "d">>,
    <<"n", "o", " ", "i", "n", "f", "o", "r", "m", "a", "t", "i", "o", "n">>,
    <<"n", "o", "t", " ", "i", "n", " ", "t", "h", "e", " ", "d", "o", "c", "u",
      "m", "e", "n", "t", "a", "t", "i", "o", "n">>,
    <<"d", "o", "n", "'", "t", " ", "k", "n", "o", "w">> }

\* the response contains a 'no information' phrase, whatever the case
SaysNoInformation ==
  \E phrase \in RefusalPhrases : includes(toLowerCase(input.response), phrase)

\* the response contains a generic-advice phrase, whatever the case
GivesGenericAdvice ==
  \E k \in 1..Len(genericPhrases) :
    includes(toLowerCase(input.response), genericPhrases[k])

\* the response contains '[source:' or '[from ', whatever the case
HasCitation ==
  \/ includes(toLowerCase(input.response), SourceMarker)
  \/ includes(toLowerCase(input.response), FromMarker)

\* C16, as claimed: for every relevantDocs, a response with a generic-advice
\* phrase and no citation marker is returned isValid=false with a warning.
C16_GenericAdviceFlagged ==
  (lastValidation.called /\ GivesGenericAdvice /\ ~HasCitation) =>
    /\ ~lastValidation.result.isValid
    /\ lastValidation.result.warning # <<>>

\* C16, amended: a response with a generic-advice phrase and no citation
\* marker is returned isValid=false with the generic-information warning,
\* unless it also contains a 'no information' phrase and relevantDocs is
\* empty; then the refusal rule comes first and isValid=true is returned.
C16_GenericAdviceFlaggedUnlessRefusal ==
  (lastValidation.called /\ GivesGenericAdvice /\ ~HasCitation) =>
    IF SaysNoInformation /\ input.relevantDocs = <<>>
    THEN lastValidation.result = Valid
    ELSE lastValidation.result = Invalid(GenericWarning)

\* C16 witness: generic advice that begins the sentence, without a citation,
\* validated against retrieved documents, is flagged
C16_Witness ==
  /\ lastValidation.called
  /\ input.response = RespGenericCapital
  /\ input.relevantDocs # <<>>
  /\ ~lastValidation.result.isValid

\* C17: a response with a 'no information' phrase validated with an empty
\* relevantDocs is returned isValid=true with no warning; and the sentence that
\* the prompt built for an empty relevantDocs tells the model to say is such a
\* response.
C17_RefusalAccepted ==
  /\ (lastValidation.called /\ SaysNoInformation /\ input.relevantDocs = <<>>) =>
       /\ lastValidation.result.isValid
       /\ lastValidation.result.warning = <<>>
  /\ (lastPrompt.called /\ input.relevantDocs = <<>> /\ input.response # <<>>
        /\ EndsWith(lastPrompt.prompt, <<"\"">> \o input.response \o <<"\"">>)) =>
       SaysNoInformation

\* C17 witness: the mandated sentence, quoted by the prompt built for an empty
\* relevantDocs, has been validated with an empty relevantDocs and accepted
C17_Witness ==
  /\ lastPrompt.called
  /\ lastValidation.called
  /\ input.relevantDocs = <<>>
  /\ input.response = FallbackSentence
  /\ includes(lastPrompt.prompt, input.response)
  /\ lastValidation.result = Valid

\* the length of the response without the white space at its ends
TrimmedLength ==
  LET solid == {i \in 1..Len(input.response) : ~IsSpace(input.response[i])}
  IN IF solid = {} THEN 0
     ELSE (CHOOSE hi \in solid : \A i \in solid : i <= hi)
            - (CHOOSE lo \in solid : \A i \in solid : lo <= i) + 1

\* C18: when neither the refusal rule nor the generic-advice rule applies,
\* the result is isValid=false with the 'incomplete' warning exactly when the
\* trimmed response is shorter than 50 characters, relevantDocs is not empty
\* and the response has no 'no information' phrase; otherwise it is
\* isValid=true with no warning.
C18_ShortAnswerFlagged ==
  (/\ lastValidation.called
   /\ ~(SaysNoInformation /\ input.relevantDocs = <<>>)
   /\ ~(GivesGenericAdvice /\ ~HasCitation)) =>
    IF TrimmedLength < 50 /\ input.relevantDocs # <<>> /\ ~SaysNoInformation
    THEN lastValidation.result = Invalid(IncompleteWarning)
    ELSE lastValidation.result = Valid

\* C18 witness: a response of more than 50 characters, fewer than 50 of them
\* between its first and last visible character, is flagged as incomplete
C18_Witness ==
  /\ lastValidation.called
  /\ Len(input.response) >= 50
  /\ TrimmedLength < 50
  /\ input.relevantDocs # <<>>
  /\ lastValidation.result = Invalid(IncompleteWarning)

\* C19: in capture-screenshot and in chat-followup, when the completion
\* resolves with text, the handler returns success with that text in full: as
\* it is when validateAIResponse accepts it, and followed by a blank line and
\* the warning when it does not.
C19_ValidationNeverBlocks ==
  (result.op \in {"capture", "chat"}
     /\ result.completion.kind = "text"
     /\ result.completion.content # <<>>)
    => /\ result.success
       /\ LET content == result.completion.content
              validation == validateAIResponse(content, result.relevantDocs)
          IN result.answer = IF validation.isValid
                             THEN content
                             ELSE content \o <<"\n", "\n">> \o validation.warning

\* C19 witness: chat-followup has returned a reply that the validator did not
\* accept, the text of the completion followed by the warning.
C19_Witness ==
  /\ result.op = "chat"
  /\ result.success
  /\ result.completion.kind = "text"
  /\ result.completion.content = RespGeneric
  /\ ~validateAIResponse(RespGeneric, result.relevantDocs).isValid
  /\ result.answer = RespGeneric \o <<"\n", "\n">> \o GenericWarning

\* the model is not yet ready: initialization has neither finished nor failed
NotYetReady == ~aiInitialized /\ ~aiInitError.set

C21_OracleFailureIsFailureResult ==
  (result.op \in {"capture", "chat"} /\ result.completion.kind = "threw")
    => /\ ~result.success
       /\ result.error # <<>>

\* chat-followup searches anew for this data
Researches(data) ==
  data.isNewChat
    \/ (data.captureContext.text = <<>> /\ data.captureContext.relevantDocs = <<>>)

\* C22: when chat-followup goes on to its completion it has searched with the
\* message and topK 8 exactly when the chat is new or has neither capture text
\* nor stored results, and then works with the results of that search; else it
\* has not searched and works with the results stored with the capture.  The
\* prompt is built from these documents and the reply is validated against
\* them.  capture-screenshot works with the results of a search with topK 5.
C22_ChatDocumentChoice ==
  [][ /\ (chat.pc # "completing" /\ chat'.pc = "completing")
        => /\ IF Researches(chat'.data)
              THEN /\ lastSearch' = MainCall(chat'.data.message, 8)
                   /\ chat'.relevantDocs = lastSearch'.out
              ELSE /\ lastSearch' = lastSearch
                   /\ chat'.relevantDocs = chat'.data.captureContext.relevantDocs
           /\ chat'.systemPrompt
                = buildSystemPrompt(chat'.relevantDocs,
                                    IF chat'.data.captureContext.text # <<>>
                                    THEN Context(chat'.data.captureContext.text,
                                                 chat'.data.captureContext.aiSolution)
                                    ELSE NoContext)
      /\ (chat.pc = "completing" /\ chat'.pc = "idle" /\ result'.success)
        => /\ result'.relevantDocs = chat.relevantDocs
           /\ result'.answer = Answered(result'.completion.content, NoResponse,
                                        chat.relevantDocs)
      /\ (capture.pc = "ocr" /\ capture'.pc = "completing")
        => /\ lastSearch' = MainCall(capture'.text, 5)
           /\ capture'.relevantDocs = lastSearch'.out
           /\ capture'.systemPrompt = buildSystemPrompt(capture'.relevantDocs, NoContext) ]_vars

\* C22 witness: a follow-up of a capture has returned without any search made:
\* the short reply was validated against the document stored with the capture
C22_Witness ==
  /\ result.op = "chat"
  /\ result.success
  /\ lastSearch = NoSearch
  /\ result.relevantDocs = <<DocA>>
  /\ result.completion = Completed(RespShort)
  /\ result.answer = RespShort \o <<"\n", "\n">> \o IncompleteWarning

\* C23: searchDocuments runs from its first line to its return in one step of
\* the event loop: the call's seeds and results are those computed from
\* documentChunks as it is when the call starts, and no step of
\* upload-document or delete-document is taken in between.
C23_SearchOnOneSnapshot ==
  [][ lastSearch' # lastSearch
        => /\ lastSearch' = MainCall(lastSearch'.query, lastSearch'.topK)
           /\ upload' = upload
           /\ delete' = delete
           /\ done' = done
           /\ documentChunks' = documentChunks
           /\ ~lastSearch'.threw
                => \A s \in 1..Len(lastSearch'.selected) :
                     Has(documentChunks, lastSearch'.selected[s].docId) ]_vars

\* C23 witness: a search has run while an upload and a delete were both
\* waiting for their saveChunks: it matched the chunks of the document being
\* uploaded and none of the document being deleted, which the query matches
C23_Witness ==
  /\ upload.pc = "savingChunks"
  /\ delete.pc = "savingChunks"
  /\ MainReturned
  /\ lastSearch.matched = {upload.docId}
  /\ MatchesOfDoc([docId |-> delete.docId, chunks |-> delete.removed],
                  QueryWords(lastSearch.query)) # <<>>

\* C24: at most one chat-followup request of the chat view is in flight, no
\* send starts while one is, and every outcome of the request (reply, failure
\* result, thrown error) leaves isSending false, after which the next thing
\* the view does is render its controls enabled.
C24_OneMessageInFlight ==
  [][ /\ renderer'.inFlight <= 1
      /\ renderer.inFlight > 0 => renderer'.inFlight <= renderer.inFlight
      /\ renderer'.inFlight < renderer.inFlight => ~renderer'.isSending
      /\ (~renderer.isSending /\ renderer.rendered /\ renderer' # renderer)
           => ~renderer'.rendered ]_vars

\* C24 witness: a request has failed, the next one has been sent and is in
\* flight with the controls disabled
C24_Witness ==
  /\ renderer.inFlight = 1
  /\ renderer.isSending
  /\ renderer.rendered
  /\ Len(renderer.chatHistory) = 3
  /\ renderer.chatHistory[2] = "thrown"

\* downloadModel rejects for caller c in this step
Rejects(c) ==
  /\ procs[c].pc \in {"fetching", "writing"}
  /\ procs'[c].pc = "idle"
  /\ procs'[c].download = "rejected"

\* C25, as claimed: when downloadModel rejects (HTTP error, error while
\* reading the response, write-stream error, size check failure), no
\* incomplete file is at the model path.
C25_FailedDownloadLeavesNoFile ==
  [][\A c \in Downloaders : Rejects(c) => modelFile' # "partial"]_vars

\* a download is in flight for caller c
InFlight(c) == procs[c].pc \in {"fetching", "writing"}

\* C28, as claimed: while a download is writing the model file, no step of
\* another operation removes the file and no other download starts; at most
\* one download is in flight.
C28_DownloadUndisturbed ==
  [][ /\ \A c, d \in Downloaders : (InFlight(c)' /\ InFlight(d)') => c = d
      /\ \A c \in Downloaders :
           (procs[c].pc = "writing" /\ procs'[c] = procs[c] /\ modelFile # "absent")
             => modelFile' # "absent" ]_vars

\* C29: aiInitializing and aiInitialized are never both true; a run of
\* initializePhase3 starts only when none is in progress and none has
\* succeeded; aiInitialized is true only when the service is initialized; and
\* 'ready' is sent only by the step that ends the load, after ensureModel
\* found the model file complete or its download resolved.
C29_InitStateMachine ==
  [][ /\ ~(aiInitializing' /\ aiInitialized')
      /\ aiInitialized' => aiService' = "initialized"
      /\ (phase3'.pc = "checkingModel" /\ phase3.pc # "checkingModel")
           => ~aiInitializing /\ ~aiInitialized
      /\ ("ready" \in aiStatus' /\ "ready" \notin aiStatus)
           => /\ phase3.pc = "loading"
              /\ phase3.model \in {"found", "downloaded"}
              /\ phase3.model = "downloaded" => procs["init"].download = "resolved"
              /\ aiService' = "initialized"
              /\ aiInitialized' ]_vars

\* C29 witness: the model was downloaded and loaded, 'ready' has been sent
C29_Witness ==
  /\ phase3.pc = "ready"
  /\ procs["init"].download = "resolved"
  /\ aiInitialized
  /\ ~aiInitializing
  /\ aiService = "initialized"
  /\ aiStatus = {"initializing", "downloading", "loading", "ready"}

\* the shortcuts in the order startup tries them: the preferred one, then the
\* fallbacks in list order
TryOrder(preferred) ==
  <<preferred>> \o SelectSeq(FallbackShortcuts, LAMBDA f : f # preferred)

\* the first shortcut of that order the system lets the app register, if any
Registrable(preferred) ==
  {i \in 1..Len(TryOrder(preferred)) : TryOrder(preferred)[i] \in available}

FirstRegistrable(preferred) ==
  TryOrder(preferred)[CHOOSE i \in Registrable(preferred) :
                        \A j \in Registrable(preferred) : i <= j]

\* C26, as claimed: after startup has registered the shortcut, the first
\* shortcut in the order preferred, fallbacks that registers is the only one
\* registered; when it is a fallback, the settings hold it in memory and, once
\* the callback has gone past saveSettings, on disk; when none registers the
\* result is a failure and the setting is unchanged.
C26_ShortcutFallback ==
  startup.pc \in {"savingSettings", "done", "rejected"} =>
    LET preferred == startup.preferred
    IN IF Registrable(preferred) = {}
       THEN /\ registered = {}
            /\ ~startup.shortcutResult.success
            /\ currentSettings = preferred
       ELSE /\ registered = {FirstRegistrable(preferred)}
            /\ startup.shortcutResult = [success |-> TRUE,
                                         shortcut |-> FirstRegistrable(preferred)]
            /\ currentSettings = FirstRegistrable(preferred)
            /\ (FirstRegistrable(preferred) # preferred
                  /\ startup.pc \in {"done", "rejected"})
                 => settingsFile = SettingsWith(FirstRegistrable(preferred))

\* C30, as claimed: after the app is ready, initializePhase2 and
\* initializePhase3 are started in the end, whatever loading the settings,
\* registering the shortcut and saving the settings come to.
C30_StartupReachesInit ==
  <>(phase2.pc # "idle" /\ phase3.pc # "idle")

\* C27, as claimed: wherever another handler can run, a document id has
\* chunks in documentChunks if and only if it has an entry in
\* documentsMetadata.
C27_SearchableEqualsListed ==
  \A docId \in DocIds :
    Has(documentChunks, docId) <=> Has(documentsMetadata, docId)

====
